---------------------------- MODULE Spec2Model ----------------------------
(***************************************************************************)
(* A model of the combat core of the card battler in src/4: the turn loop  *)
(* of CombatEngine.run_combat, the damage pipeline, the deck piles, the    *)
(* built-in decision policy and the event queue.                           *)
(*                                                                         *)
(* Conventions.                                                            *)
(*  - Decimal and float quantities are modelled exactly: a multiplier is a *)
(*    fraction [num, den]; int(x) on a Decimal truncates toward zero       *)
(*    (Trunc); the policy's float scores are kept as integers scaled by    *)
(*    ScoreScale, which is exact for card costs in {0, 1, 2, 3}.           *)
(*  - random.Random() is unseeded (cards.py:118): a shuffle is a free      *)
(*    choice among all orders.                                             *)
(*  - A Python exception that leaves run_combat is the state pc = "fault"  *)
(*    with the exception's name in fault.                                  *)
(*  - Config holds its cards and patterns as the mappings that cards.py    *)
(*    and engine.py subscript (card_data.get(..), pattern["type"]).        *)
(***************************************************************************)
EXTENDS Integers, Sequences, FiniteSets, TLC

VARIABLES
    config,            \* the Config handed to CombatEngine.__init__
    pc,                \* position inside run_combat / the harness
    fault,             \* name of the exception that ended the run, or "none"
    turn,              \* GameState.turn
    log,               \* GameState.log (first LogCap entries)
    result,            \* the terminal log line of run_combat, or "none"
    player,            \* GameState.player
    enemy,             \* GameState.enemy
    turn_counter,      \* CombatEngine._turn_counter: the next value it yields
    card_idx,          \* run_combat's local card_idx: the policy's last choice
    event_queue,       \* CombatEngine.event_queue._queue
    damage_modifiers,  \* CombatEngine._damage_modifiers
    run,               \* how many times run_combat was started on this engine
    first_log,         \* log of the first finished run (two-run harness)
    first_result,      \* result of the first finished run (two-run harness)
    q_pushed,          \* event-queue harness: priorities in push order
    q_popped,          \* event-queue harness: items in delivery order
    ops,               \* status, effect and damage harnesses: what was done so far
    scopes,            \* hook harness: the open damage_modifier scopes, innermost last
    safe_expr          \* purity harness: the SafeExpr object the caller holds

vars == <<config, pc, fault, turn, log, result, player, enemy, turn_counter,
          card_idx, event_queue, damage_modifiers, run, first_log, first_result,
          q_pushed, q_popped, ops, scopes, safe_expr>>

combatVars == <<turn, log, result, player, enemy, turn_counter, card_idx,
                damage_modifiers, run, first_log, first_result>>

\* no SafeExpr object constructed yet
NoSafeExpr == [tree |-> "none"]

\* ------------------------------------------------------------------ bounds

\* Only the first LogCap log lines are kept in the state.
LogCap == 6
\* cards_played_this_turn is kept up to PlaysCap (it only feeds the policy's
\* "finisher" bonus).
PlaysCap == 3
\* Event-queue harness: at most MaxPushes pushes, priorities 0..MaxPriority.
MaxPushes == 4
MaxPriority == 2
\* the status harness: operations per run, intensity of one application
MaxOps == 3
MaxIntensity == 2
\* the damage harness: the largest nominal damage value
MaxNominal == 10
\* the hook harness: how many damage_modifier scopes are open at once
MaxDepth == 4
\* the card-zone harness: the hand size limit configured, and the longest pile dealt
HandLimit == 2
MaxPile == 2
\* the expression harness: the largest literal and the largest context value
MaxOperand == 2
\* the largest operation limit the limit harness sets
MaxLimit == 6

\* ------------------------------------------------------- program constants

\* types.py:160  "or self.turn >= 100"
HardTurnLimit == 100
\* ai.py:23-26 and 66: scores are kept multiplied by ScoreScale
ScoreScale == 300

\* --------------------------------------------------------------- utilities

Min(a, b) == IF a <= b THEN a ELSE b
Max(a, b) == IF a >= b THEN a ELSE b

\* int(Decimal): truncation toward zero of n/d, d > 0
Trunc(n, d) == IF n >= 0 THEN n \div d ELSE -((-n) \div d)

RECURSIVE SumSeq(_)
SumSeq(s) == IF s = << >> THEN 0 ELSE Head(s) + SumSeq(Tail(s))

Range(s) == {s[i] : i \in 1..Len(s)}

\* list.remove(x): drop the first element equal to x
RemoveFirst(s, x) ==
    LET i == CHOOSE k \in 1..Len(s) : s[k] = x /\ \A j \in 1..(k-1) : s[j] # x
    IN  [k \in 1..(Len(s)-1) |-> IF k < i THEN s[k] ELSE s[k+1]]

\* number of occurrences of x in s
Count(s, x) == Cardinality({i \in 1..Len(s) : s[i] = x})

\* ------------------------------------------------- safeexpr.py (SafeExpr)

\* The parsed expression (ast.parse, safeexpr.py:68) as a tree of records.
Num(n) == [k |-> "Num", n |-> n]
Name(id) == [k |-> "Name", id |-> id]
BinOp(op, l, r) == [k |-> "BinOp", op |-> op, l |-> l, r |-> r]
Compare(op, l, r) == [k |-> "Compare", op |-> op, l |-> l, r |-> r]
\* Effect.condition = None
NoCond == [k |-> "None"]

\* SafeExpr._eval_node for the node kinds above (integer operands).
RECURSIVE EvalNode(_, _)
EvalNode(node, ctx) ==
    CASE node.k = "Num" -> node.n
      [] node.k = "Name" ->
            \* a name missing from the context evaluates to 0
            IF node.id \in DOMAIN ctx THEN ctx[node.id] ELSE 0
      [] node.k = "BinOp" ->
            LET left == EvalNode(node.l, ctx)
                right == EvalNode(node.r, ctx)
            IN  CASE node.op = "Add" -> left + right
                  [] node.op = "Sub" -> left - right
                  [] node.op = "Mult" -> left * right
                  [] node.op = "FloorDiv" ->
                        IF right = 0 THEN 0 ELSE left \div right
                  [] node.op = "Mod" ->
                        IF right = 0 THEN left ELSE left % right
                  [] OTHER -> 0
      [] node.k = "Compare" ->
            LET left == EvalNode(node.l, ctx)
                right == EvalNode(node.r, ctx)
                res == CASE node.op = "Eq" -> left = right
                         [] node.op = "NotEq" -> left # right
                         [] node.op = "Lt" -> left < right
                         [] node.op = "LtE" -> left <= right
                         [] node.op = "Gt" -> left > right
                         [] node.op = "GtE" -> left >= right
                         [] OTHER -> FALSE
            IN  IF res THEN 1 ELSE 0
      [] OTHER -> 0

\* SafeExpr(expr).eval(context) for an expression with an integer result
SafeEval(expr, ctx) == EvalNode(expr, ctx)

\* The evaluator once more, with what a caller of eval can observe besides an
\* integer result: the exception, float results and self._operations.

\* ast.BoolOp(op, values), ast.IfExp(test, body, orelse), and the call
\* math.<func>(arg): ast.Call(ast.Attribute(Name("math"), func), [arg])
BoolOp(op, values) == [k |-> "BoolOp", op |-> op, values |-> values]
IfExp(test, body, orelse) == [k |-> "IfExp", test |-> test, body |-> body, orelse |-> orelse]
MathCall(func, arg) == [k |-> "Call", func |-> func, args |-> <<arg>>]

\* a call f(arg) of a function by name, a call obj.attr(arg), and a bare
\* obj.attr
NameCall(func, arg) == [k |-> "NameCall", func |-> func, args |-> <<arg>>]
AttrCall(obj, attr, arg) == [k |-> "AttrCall", obj |-> obj, attr |-> attr, args |-> <<arg>>]
Attribute(obj, attr) == [k |-> "Attribute", obj |-> obj, attr |-> attr]

\* SafeExpr._allowed_functions and SafeExpr._math_functions
AllowedFunctions == {"abs", "min", "max", "round", "int", "float", "sum", "len", "Fraction"}
MathFunctions == {"sqrt", "log", "log10", "exp", "sin", "cos", "tan", "ceil", "floor"}

\* self._max_operations and the max_depth default
MaxOperations == 10000
max_depth == 10

\* the fields of a SafeExpr that evaluation and validation read
NewSafeExpr(allow_math) ==
    [max_operations |-> MaxOperations, max_depth |-> max_depth, allow_math |-> allow_math]

\* a number as the quotient num/den; float("inf") has den = 0
Val(n) == [num |-> n, den |-> 1]
Inf == [num |-> 1, den |-> 0]
IsZero(v) == v.num = 0 /\ v.den # 0
Truthy(v) == v.num # 0

\* an evaluation that returned v, or raised err, after n calls of _eval_node
Ok(v, n) == [err |-> "none", v |-> v, n |-> n]
Err(err, n) == [err |-> err, v |-> Val(0), n |-> n]

\* Python's % on integers, right # 0
PyMod(left, right) ==
    IF right > 0 THEN left % right ELSE -((-left) % (-right))

\* the ast.BinOp branch on two evaluated operands (integers in every
\* expression built here)
BinOpValue(op, left, right) ==
    CASE op = "Add" -> Val(left.num + right.num)
      [] op = "Sub" -> Val(left.num - right.num)
      [] op = "Mult" -> Val(left.num * right.num)
      [] op = "Div" ->
            IF IsZero(right) THEN Inf ELSE [num |-> left.num, den |-> right.num]
      [] op = "FloorDiv" ->
            IF IsZero(right) THEN Val(0) ELSE Val(left.num \div right.num)
      [] op = "Mod" ->
            IF IsZero(right) THEN left ELSE Val(PyMod(left.num, right.num))
      [] OTHER -> Val(0)

\* the ast.Compare branch, one comparison
CompareValue(op, left, right) ==
    LET res == CASE op = "Eq" -> left.num * right.den = right.num * left.den
                 [] op = "NotEq" -> left.num * right.den # right.num * left.den
                 [] op = "Lt" -> left.num * right.den < right.num * left.den
                 [] op = "LtE" -> left.num * right.den <= right.num * left.den
                 [] op = "Gt" -> left.num * right.den > right.num * left.den
                 [] op = "GtE" -> left.num * right.den >= right.num * left.den
                 [] OTHER -> FALSE
    IN  Val(IF res THEN 1 ELSE 0)

\* _eval_call, func a Name: func(*args) under "except Exception: return 0",
\* for the functions called here (abs, int, floor, ceil)
NameCallValue(func, arg) ==
    CASE arg.den = 0 -> IF func = "abs" THEN Inf ELSE Val(0)
      [] func = "abs" -> IF arg.num * arg.den < 0
                         THEN [num |-> -arg.num, den |-> arg.den] ELSE arg
      [] func = "floor" -> Val(arg.num \div arg.den)
      [] func = "ceil" -> Val(-((-arg.num) \div arg.den))
      [] func = "int" -> Val(Trunc(arg.num, arg.den))
      [] OTHER -> Val(0)

\* _eval_call, "Handle math.function calls": func(*args) is not guarded;
\* math.floor and math.ceil raise OverflowError on an infinite argument
MathValue(func, arg, n) ==
    CASE func = "floor" ->
            IF arg.den = 0 THEN Err("OverflowError", n)
            ELSE Ok(Val(arg.num \div arg.den), n)
      [] func = "ceil" ->
            IF arg.den = 0 THEN Err("OverflowError", n)
            ELSE Ok(Val(-((-arg.num) \div arg.den)), n)
      [] OTHER -> Ok(Val(0), n)

\* a limit that lets one node more through
OverLimitByTwo(operations, limit) == operations > limit + 1

\* _eval_node: "if self._operations > self._max_operations"
OverLimit(operations, limit) == operations > limit

\* SafeExpr._eval_node(node), entered with used calls already counted, on a
\* SafeExpr whose _max_operations is limit
RECURSIVE eval_node_limited(_, _, _, _)
eval_node_limited(node, ctx, used, self) ==
    IF OverLimit(used + 1, self.max_operations) THEN Err("ExpressionError", used + 1)
    ELSE
    CASE node.k = "Num" -> Ok(Val(node.n), used + 1)
      [] node.k = "Name" ->
            IF node.id \in DOMAIN ctx THEN Ok(Val(ctx[node.id]), used + 1)
            ELSE Ok(Val(0), used + 1)
      [] node.k = "BinOp" ->
            LET left == eval_node_limited(node.l, ctx, used + 1, self)
            IN  IF left.err # "none" THEN left
                ELSE LET right == eval_node_limited(node.r, ctx, left.n, self)
                     IN  IF right.err # "none" THEN right
                         ELSE Ok(BinOpValue(node.op, left.v, right.v), right.n)
      [] node.k = "Compare" ->
            LET left == eval_node_limited(node.l, ctx, used + 1, self)
            IN  IF left.err # "none" THEN left
                ELSE LET right == eval_node_limited(node.r, ctx, left.n, self)
                     IN  IF right.err # "none" THEN right
                         ELSE Ok(CompareValue(node.op, left.v, right.v), right.n)
      [] node.k = "BoolOp" ->
            \* values = [self._eval_node(v) for v in node.values]
            LET first == eval_node_limited(node.values[1], ctx, used + 1, self)
            IN  IF first.err # "none" THEN first
                ELSE LET second == eval_node_limited(node.values[2], ctx, first.n, self)
                     IN  IF second.err # "none" THEN second
                         ELSE IF node.op = "And"
                         THEN Ok(Val(IF Truthy(first.v) /\ Truthy(second.v)
                                     THEN 1 ELSE 0), second.n)
                         ELSE Ok(Val(IF Truthy(first.v) \/ Truthy(second.v)
                                     THEN 1 ELSE 0), second.n)
      [] node.k = "IfExp" ->
            LET test == eval_node_limited(node.test, ctx, used + 1, self)
            IN  IF test.err # "none" THEN test
                ELSE LET true_val == eval_node_limited(node.body, ctx, test.n, self)
                     IN  IF true_val.err # "none" THEN true_val
                         ELSE LET false_val == eval_node_limited(node.orelse, ctx, true_val.n, self)
                              IN  IF false_val.err # "none" THEN false_val
                                  ELSE Ok(IF Truthy(test.v) THEN true_val.v
                                          ELSE false_val.v, false_val.n)
      [] node.k = "Call" ->
            LET arg == eval_node_limited(node.args[1], ctx, used + 1, self)
            IN  IF arg.err # "none" THEN arg
                ELSE MathValue(node.func, arg.v, arg.n)
      [] node.k = "NameCall" ->
            \* _eval_call, func a Name: a math function while allow_math is off
            \* returns 0 before the arguments; errors of func are swallowed
            IF node.func \in MathFunctions /\ ~self.allow_math
               /\ node.func \notin AllowedFunctions
            THEN Ok(Val(0), used + 1)
            ELSE LET arg == eval_node_limited(node.args[1], ctx, used + 1, self)
                 IN  IF arg.err # "none" THEN arg
                     ELSE Ok(NameCallValue(node.func, arg.v), arg.n)
      [] node.k = "AttrCall" ->
            \* _eval_call, func an Attribute: only math.<function> is called
            IF node.obj = "math" /\ node.attr \in MathFunctions
            THEN LET arg == eval_node_limited(node.args[1], ctx, used + 1, self)
                 IN  IF arg.err # "none" THEN arg
                     ELSE MathValue(node.attr, arg.v, arg.n)
            ELSE Ok(Val(0), used + 1)
      \* "Default return instead of error": ast.Attribute and the rest
      [] OTHER -> Ok(Val(0), used + 1)

\* SafeExpr._eval_node(node) with the limit __init__ sets
eval_node(node, ctx, used) == eval_node_limited(node, ctx, used, NewSafeExpr(TRUE))

\* SafeExpr(expr).eval(context) after self._max_operations = limit
eval_limited(expr, ctx, limit) ==
    LET res == eval_node_limited(expr, ctx, 1,
                                 [NewSafeExpr(TRUE) EXCEPT !.max_operations = limit])
    IN  IF res.err # "none" THEN Err("ExpressionError", res.n) ELSE res

\* SafeExpr(expr, allow_math=allow_math).eval(context)
eval_with(expr, ctx, allow_math) ==
    LET res == eval_node_limited(expr, ctx, 1, NewSafeExpr(allow_math))
    IN  IF res.err # "none" THEN Err("ExpressionError", res.n) ELSE res

\* SafeExpr(expr).eval(context): the tree is an ast.Expression around the
\* expression; every exception leaves as ExpressionError
eval(expr, ctx) ==
    LET res == eval_node(expr, ctx, 1)
    IN  IF res.err # "none" THEN Err("ExpressionError", res.n) ELSE res

\* self._context.update(context): names of earlier calls stay bound
MergeContext(self, context) ==
    [name \in DOMAIN self._context \cup DOMAIN context |->
        IF name \in DOMAIN context THEN context[name] ELSE self._context[name]]

\* self._context = context.copy()
BindContext(self, context) == context

\* SafeExpr.eval(context) as a method of the object self: the object and the
\* caller's dict after the call, and the value returned or the error raised
eval_call(self, context) ==
    LET started == [self EXCEPT !._operations = 0, !._depth = 0,
                                !._context = BindContext(self, context)]
        res == eval_node_limited(self.tree, started._context,
                                 started._operations + 1, self)
    IN  [self |-> [started EXCEPT !._operations = res.n],
         context |-> context,
         outcome |-> IF res.err # "none" THEN Err("ExpressionError", res.n) ELSE res]

\* the sub-expressions of a node, and how far below the node its deepest
\* child without a sub-expression lies (operator, Load, the callee's Name)
Children(node) ==
    CASE node.k \in {"BinOp", "Compare"} -> <<node.l, node.r>>
      [] node.k = "BoolOp" -> node.values
      [] node.k = "IfExp" -> <<node.test, node.body, node.orelse>>
      [] node.k \in {"Call", "NameCall", "AttrCall"} -> node.args
      [] OTHER -> << >>

Below(node) ==
    CASE node.k = "Num" -> 0
      [] node.k \in {"Name", "BinOp", "Compare", "BoolOp"} -> 1
      [] node.k \in {"NameCall", "Attribute"} -> 2
      [] node.k \in {"Call", "AttrCall"} -> 3
      [] OTHER -> 0

\* SafeExpr._validate(node, depth): "none", or the error it raises
RECURSIVE validate(_, _, _)
validate(node, depth, self) ==
    IF depth + Below(node) > self.max_depth THEN "ExpressionError"
    ELSE IF node.k = "NameCall" /\ node.func \notin AllowedFunctions
            /\ node.func \notin MathFunctions
    THEN "ExpressionError"
    ELSE IF node.k = "AttrCall" /\ node.attr \notin MathFunctions
    THEN "ExpressionError"
    ELSE IF \E i \in 1..Len(Children(node)) :
                validate(Children(node)[i], depth + 1, self) # "none"
    THEN "ExpressionError"
    ELSE "none"

\* SafeExpr.__init__: self._validate(self.tree), the expression one below the
\* ast.Expression node
construct(expr, allow_math) == validate(expr, 1, NewSafeExpr(allow_math))

\* the names an evaluation may look up in the context: the ast.Name nodes
\* _eval_node can be called on
RECURSIVE NamesRead(_)
NamesRead(node) ==
    CASE node.k = "Name" -> {node.id}
      [] node.k \in {"BinOp", "Compare"} ->
            NamesRead(node.l) \cup NamesRead(node.r)
      [] node.k = "BoolOp" ->
            NamesRead(node.values[1]) \cup NamesRead(node.values[2])
      [] node.k = "IfExp" ->
            NamesRead(node.test) \cup NamesRead(node.body)
            \cup NamesRead(node.orelse)
      [] node.k = "Call" -> NamesRead(node.args[1])
      [] OTHER -> {}

\* ------------------------------------------------------ types.py data model

\* EffectTiming
Timings == {"IMMEDIATE", "END_OF_TURN", "START_OF_TURN"}
\* StatusType values
StatusTypes == {"poison", "vulnerable", "weak", "strength", "dexterity",
                "regeneration", "thorns"}

\* Effect(kind, value, timing, duration, targets_self, condition)
Effect(kind, value, timing, duration, targets_self, condition) ==
    [kind |-> kind, value |-> value, timing |-> timing, duration |-> duration,
     targets_self |-> targets_self, condition |-> condition]

\* an immediate, unconditional effect with the dataclass defaults
Eff(kind, value) == Effect(kind, value, "IMMEDIATE", 0, FALSE, NoCond)

\* Card(id, name, cost, effects, tags, ethereal, innate, retain)
Card(id, cost, effects, tags, ethereal, innate, retain) ==
    [id |-> id, cost |-> cost, effects |-> effects, tags |-> tags,
     ethereal |-> ethereal, innate |-> innate, retain |-> retain]

\* CombatModifiers(); damage_multiplier is the fraction num/den
NoModifiers ==
    [damage_multiplier |-> [num |-> 1, den |-> 1],
     card_draw_bonus |-> 0, energy_bonus |-> 0,
     block_multiplier |-> [num |-> 1, den |-> 1]]

\* CombatModifiers.apply_damage: int(Decimal(str(base)) * damage_multiplier)
ModApplyDamage(m, base) ==
    Trunc(base * m.damage_multiplier.num, m.damage_multiplier.den)

\* ------------------------------------- the card catalog (Config.cards)

\* CardLibrary._initialize_cards builds one Card per entry of Config.cards.
Catalog ==
    [strike  |-> Card("strike", 1, <<Eff("damage", 6)>>, {}, FALSE, FALSE, FALSE),
     defend  |-> Card("defend", 1, <<Eff("block", 5)>>, {}, FALSE, FALSE, FALSE),
     cantrip |-> Card("cantrip", 0, <<Eff("draw", 1)>>, {}, FALSE, FALSE, FALSE),
     bandage |-> Card("bandage", 1,
                      <<Effect("heal", 3, "IMMEDIATE", 0, TRUE, NoCond)>>,
                      {}, FALSE, FALSE, FALSE),
     bulwark |-> Card("bulwark", 2, <<Eff("block", 8)>>, {}, FALSE, FALSE, TRUE),
     ember   |-> Card("ember", 1,
                      <<Effect("damage", 2, "END_OF_TURN", 0, FALSE, NoCond),
                        Eff("block", 4)>>,
                      {}, TRUE, FALSE, FALSE),
     expose  |-> Card("expose", 1,
                      <<Effect("status", 1, "IMMEDIATE", 2, FALSE, Name("vulnerable"))>>,
                      {}, FALSE, FALSE, FALSE),
     flex    |-> Card("flex", 1,
                      <<Effect("status", 2, "IMMEDIATE", 2, TRUE, Name("strength"))>>,
                      {}, FALSE, FALSE, FALSE),
     surge   |-> Card("surge", 2, <<Eff("damage", 3)>>, {"power"}, FALSE, FALSE, FALSE)]

CardIds == DOMAIN Catalog

\* CardLibrary.get_card
get_card(card_id) == Catalog[card_id]

\* ---------------------------------------------------- types.py: EventQueue

\* A sort that is not stable: an element goes in front of the elements of
\* equal priority (what a sort on the priority alone may do).
RECURSIVE UnstableSortByPriority(_)
UnstableSortByPriority(q) ==
    IF q = << >> THEN << >>
    ELSE LET n == Len(q)
             front == UnstableSortByPriority(SubSeq(q, 1, n - 1))
             x == q[n]
             k == Cardinality({i \in 1..(n - 1) : front[i][1] < x[1]})
         IN  SubSeq(front, 1, k) \o <<x>> \o SubSeq(front, k + 1, n - 1)

\* list.sort(key=priority) is a stable sort: insert each element behind every
\* element whose priority is not larger.
RECURSIVE StableSortByPriority(_)
StableSortByPriority(q) ==
    IF q = << >> THEN << >>
    ELSE LET n == Len(q)
             front == StableSortByPriority(SubSeq(q, 1, n - 1))
             x == q[n]
             k == Cardinality({i \in 1..(n - 1) : front[i][1] <= x[1]})
         IN  SubSeq(front, 1, k) \o <<x>> \o SubSeq(front, k + 1, n - 1)

\* EventQueue.push: append, then sort by priority
QueuePush(q, priority, item) == StableSortByPriority(Append(q, <<priority, item>>))

\* EventQueue.pop: the item of the first pair (None on an empty queue)
QueuePopItem(q) == q[1][2]
QueuePopRest(q) == Tail(q)

\* a truth test that lets the last pending entry go unnoticed
QueueHasSeveral(q) == Len(q) > 1

\* EventQueue.__bool__: bool(self._queue)
QueueNonEmpty(q) == Len(q) > 0

\* ------------------------------------------------------ combat state helpers

\* the log entries: one record per formatted line
LogLine(ev, card, n) == [ev |-> ev, card |-> card, n |-> n]

\* state.log.append(..): only the first LogCap lines are kept
LogAppend(s, line) ==
    IF Len(s.log) < LogCap THEN [s EXCEPT !.log = Append(@, line)] ELSE s

Raise(s, exc) == [s EXCEPT !.fault = exc]

\* StatusType.X in target.statuses (statuses: the dict in insertion order)
HasStatus(statuses, t) == \E i \in 1..Len(statuses) : statuses[i].type = t

\* rng.shuffle(cards): the order is given by the ranks perm assigns to 1..n
ShuffleBy(cards, perm) ==
    LET n == Len(cards)
        rank(i) == Cardinality({j \in 1..n : perm[j] < perm[i]}) + 1
    IN  [k \in 1..n |-> cards[CHOOSE i \in 1..n : rank(i) = k]]

\* ---------------------------------------------------- cards.py: DeckManager

\* DeckManager._reshuffle
Reshuffle(s, perm) ==
    LogAppend([s EXCEPT !.player.draw_pile = @ \o ShuffleBy(s.player.discard_pile, perm),
                        !.player.discard_pile = << >>],
              LogLine("Reshuffled deck", "", 0))

\* DeckManager.draw_card (with _trigger_draw_effects)
draw_card(s, cfg, perm) ==
    IF s.fault # "none" THEN s
    ELSE IF Len(s.player.hand) >= cfg.max_hand_size THEN s
    ELSE LET s1 == IF s.player.draw_pile = << >> /\ s.player.discard_pile # << >>
                   THEN Reshuffle(s, perm) ELSE s
         IN  IF s1.player.draw_pile = << >> THEN s1
             ELSE LET n == Len(s1.player.draw_pile)
                      card == s1.player.draw_pile[n]
                      s2 == [s1 EXCEPT !.player.draw_pile = SubSeq(@, 1, n - 1),
                                       !.player.hand = Append(@, card)]
                  IN  IF "power" \in get_card(card).tags
                      THEN Raise(s2, "FrozenInstanceError")
                      ELSE LogAppend(s2, LogLine("Drew", card, 0))

\* for _ in range(count): draw_card(state)
RECURSIVE DrawCards(_, _, _, _)
DrawCards(s, cfg, count, perm) ==
    IF count <= 0 THEN s
    ELSE DrawCards(draw_card(s, cfg, perm), cfg, count - 1, perm)

\* DeckManager.initialize_deck: innate cards, then the shuffled others
initialize_deck(s, cfg, perm) ==
    LET deck_cards == cfg.starting_deck
        innate_cards == SelectSeq(deck_cards, LAMBDA c : get_card(c).innate)
        other_cards == SelectSeq(deck_cards, LAMBDA c : ~get_card(c).innate)
    IN  [s EXCEPT !.player.draw_pile = innate_cards \o ShuffleBy(other_cards, perm)]

\* ---------------------------------------------------- engine.py: CombatEngine

\* a registered damage modifier: a callable, here "add n to the value" or
\* "multiply the value by n"
ApplyModifier(h, damage) == IF h.op = "mul" THEN damage * h.n ELSE damage + h.n

\* the loop over the hooks taken from the last registered one to the first
RECURSIVE ApplyModifiersReversed(_, _)
ApplyModifiersReversed(hooks, damage) ==
    IF hooks = << >> THEN damage
    ELSE ApplyModifier(Head(hooks), ApplyModifiersReversed(Tail(hooks), damage))

\* "for modifier in self._damage_modifiers: damage = modifier(damage, ..)"
RECURSIVE ApplyModifiers(_, _)
ApplyModifiers(hooks, damage) ==
    IF hooks = << >> THEN damage
    ELSE ApplyModifiers(Tail(hooks), ApplyModifier(Head(hooks), damage))

\* an increase that is applied once for every point of vulnerable intensity
RECURSIVE IncreaseTimes(_, _)
IncreaseTimes(k, damage) ==
    IF k <= 0 THEN damage ELSE IncreaseTimes(k - 1, Trunc(damage * 15, 10))

VulnerablePerStack(statuses, damage) ==
    IF HasStatus(statuses, "vulnerable")
    THEN IncreaseTimes(statuses[CHOOSE i \in 1..Len(statuses) :
                                   statuses[i].type = "vulnerable"].intensity,
                       damage)
    ELSE damage

\* apply_damage, "if StatusType.VULNERABLE in target.statuses":
\* int(damage * Decimal("1.5") * Decimal("1.0"))
VulnerableIncrease(statuses, damage) ==
    IF HasStatus(statuses, "vulnerable") THEN Trunc(damage * 15, 10) ELSE damage

\* apply_damage up to the block step: source modifiers, weak, vulnerable, then
\* the registered hooks
RunningValue(source, target, base_damage, hooks) ==
    LET d1 == ModApplyDamage(source.modifiers, base_damage)
        d2 == IF HasStatus(source.statuses, "weak") THEN Trunc(d1 * 5, 10) ELSE d1
        d3 == VulnerableIncrease(target.statuses, d2)
    IN  ApplyModifiers(hooks, d3)

\* a block step that spends the whole block on any hit
AbsorbWholeBlock(damage, block) ==
    [damage |-> Max(0, damage - block), block |-> 0]

\* "Apply block": blocked = min(damage, target.block); target.block -= blocked;
\* damage -= blocked; return max(0, damage)
Absorb(damage, block) ==
    LET blocked == Min(damage, block)
    IN  [damage |-> Max(0, damage - blocked), block |-> block - blocked]

\* CombatEngine.apply_damage: the damage returned and the target's block after
apply_damage(source, target, base_damage, hooks) ==
    Absorb(RunningValue(source, target, base_damage, hooks), target.block)

\* a merge that takes the incoming duration whatever the existing one is
StackTakingIncomingDuration(old, new) ==
    [old EXCEPT !.intensity = old.intensity + new.intensity,
                !.duration = new.duration]

\* StatusEffect.stack
StatusStack(old, new) ==
    [old EXCEPT !.intensity = old.intensity + new.intensity,
                !.duration = IF old.duration > 0
                             THEN Max(old.duration, new.duration)
                             ELSE new.duration]

\* PlayerState.add_status
add_status(statuses, status) ==
    IF HasStatus(statuses, status.type)
    THEN [i \in 1..Len(statuses) |->
            IF statuses[i].type = status.type
            THEN StatusStack(statuses[i], status) ELSE statuses[i]]
    ELSE Append(statuses, status)

\* CombatEngine._apply_effect
apply_effect(s, cfg, effect, card, hooks, perm) ==
    IF s.fault # "none" THEN s
    ELSE CASE effect.kind = "damage" ->
                LET r == apply_damage(s.player, s.enemy, effect.value, hooks)
                IN  LogAppend([s EXCEPT !.enemy.block = r.block,
                                        !.enemy.hp = @ - r.damage],
                              LogLine("deals damage", card, r.damage))
           [] effect.kind = "block" ->
                LET block_gained == Trunc(effect.value * s.player.modifiers.block_multiplier.num,
                                          s.player.modifiers.block_multiplier.den)
                IN  LogAppend([s EXCEPT !.player.block = @ + block_gained],
                              LogLine("grants block", card, block_gained))
           [] effect.kind = "draw" -> DrawCards(s, cfg, effect.value, perm)
           [] effect.kind = "energy" -> [s EXCEPT !.player.energy = @ + effect.value]
           [] effect.kind = "status" ->
                IF effect.condition.k = "None" THEN Raise(s, "AttributeError")
                ELSE IF ~(effect.condition.k = "Name" /\ effect.condition.id \in StatusTypes)
                THEN Raise(s, "KeyError")
                ELSE IF ~effect.targets_self
                THEN Raise(s, "AttributeError")   \* EnemyState has no add_status
                ELSE [s EXCEPT !.player.statuses =
                        add_status(@, [type |-> effect.condition.id,
                                       intensity |-> effect.value,
                                       duration |-> effect.duration])]
           [] effect.kind = "heal" ->
                IF effect.targets_self
                THEN [s EXCEPT !.player.hp = @ + effect.value]
                ELSE [s EXCEPT !.enemy.hp = @ + effect.value]
           [] OTHER -> s

\* the context process_card_effects hands to an effect's condition
ConditionContext(s) ==
    [hp |-> s.player.hp, energy |-> s.player.energy,
     cards_in_hand |-> Len(s.player.hand), turn |-> s.turn]

\* The callable queued for a deferred effect.  The lambda reads the loop
\* variable `effect` when it is called, after the loop has ended: it applies
\* the card's last effect.  for_effect records the effect it was queued for.
Deferred(card, for_effect) ==
    [card |-> card, for_effect |-> for_effect,
     effect |-> Len(get_card(card).effects)]

\* CombatEngine.process_card_effects, from effect number i on
RECURSIVE ProcessEffectsFrom(_, _, _, _, _, _)
ProcessEffectsFrom(s, cfg, card, i, hooks, perm) ==
    IF s.fault # "none" \/ i > Len(get_card(card).effects) THEN s
    ELSE LET effect == get_card(card).effects[i]
             skip == /\ effect.condition.k # "None"
                     /\ SafeEval(effect.condition, ConditionContext(s)) = 0
             s1 == IF skip THEN s
                   ELSE CASE effect.timing = "IMMEDIATE" ->
                               apply_effect(s, cfg, effect, card, hooks, perm)
                          [] effect.timing = "END_OF_TURN" ->
                               [s EXCEPT !.event_queue = QueuePush(@, 1, Deferred(card, i))]
                          [] effect.timing = "START_OF_TURN" ->
                               [s EXCEPT !.event_queue = QueuePush(@, -1, Deferred(card, i))]
                          [] OTHER -> s
         IN  ProcessEffectsFrom(s1, cfg, card, i + 1, hooks, perm)

process_card_effects(s, cfg, card, hooks, perm) ==
    ProcessEffectsFrom(s, cfg, card, 1, hooks, perm)

\* process_turn_end, "Process queued events": pop and call until empty
RECURSIVE DrainQueue(_, _, _, _)
DrainQueue(s, cfg, hooks, perm) ==
    IF s.fault # "none" \/ ~QueueNonEmpty(s.event_queue) THEN s
    ELSE LET event == QueuePopItem(s.event_queue)
             s1 == [s EXCEPT !.event_queue = QueuePopRest(@)]
         IN  DrainQueue(apply_effect(s1, cfg, get_card(event.card).effects[event.effect],
                                     event.card, hooks, perm),
                        cfg, hooks, perm)

\* StatusEffect.decay: the duration afterwards, and whether to remove
DecayDuration(status) == IF status.duration > 0 THEN status.duration - 1 ELSE status.duration
DecayRemoves(status) == status.duration > 0 /\ status.duration - 1 = 0

\* process_turn_end, "Decay status effects", for one target: a `del` inside
\* the loop over the dict makes the next step of the iteration raise
\* RuntimeError, whatever the position of the deleted entry.
DecayStatuses(statuses) ==
    LET n == Len(statuses)
        expiring == {i \in 1..n : DecayRemoves(statuses[i])}
    IN  IF expiring = {}
        THEN [statuses |-> [i \in 1..n |-> [statuses[i] EXCEPT !.duration = DecayDuration(statuses[i])]],
              fault |-> "none"]
        ELSE LET e == CHOOSE i \in expiring : \A j \in expiring : i <= j
                 kept == [i \in 1..n |->
                            IF i < e THEN [statuses[i] EXCEPT !.duration = DecayDuration(statuses[i])]
                            ELSE statuses[i]]
             IN  [statuses |-> SubSeq(kept, 1, e - 1) \o SubSeq(kept, e + 1, n),
                  fault |-> "RuntimeError"]

DecayPlayer(s) ==
    IF s.fault # "none" THEN s
    ELSE LET r == DecayStatuses(s.player.statuses)
         IN  [s EXCEPT !.player.statuses = r.statuses, !.fault = r.fault]

DecayEnemy(s) ==
    IF s.fault # "none" THEN s
    ELSE LET r == DecayStatuses(s.enemy.statuses)
         IN  [s EXCEPT !.enemy.statuses = r.statuses, !.fault = r.fault]

\* process_turn_end, "Apply poison", on one status map
PoisonIntensity(statuses) ==
    LET i == CHOOSE k \in 1..Len(statuses) : statuses[k].type = "poison"
    IN  statuses[i].intensity

PoisonTick(statuses) ==
    [i \in 1..Len(statuses) |->
        IF statuses[i].type = "poison"
        THEN [statuses[i] EXCEPT !.intensity = Max(0, @ - 1)]
        ELSE statuses[i]]

PoisonPlayer(s) ==
    IF s.fault # "none" \/ ~HasStatus(s.player.statuses, "poison") THEN s
    ELSE LogAppend([s EXCEPT !.player.hp = @ - PoisonIntensity(s.player.statuses),
                             !.player.statuses = PoisonTick(@)],
                   LogLine("Poison deals damage", "", PoisonIntensity(s.player.statuses)))

PoisonEnemy(s) ==
    IF s.fault # "none" \/ ~HasStatus(s.enemy.statuses, "poison") THEN s
    ELSE LogAppend([s EXCEPT !.enemy.hp = @ - PoisonIntensity(s.enemy.statuses),
                             !.enemy.statuses = PoisonTick(@)],
                   LogLine("Poison deals damage", "", PoisonIntensity(s.enemy.statuses)))

\* process_turn_end, "Discard hand"
DiscardHand(s) ==
    IF s.fault # "none" THEN s
    ELSE IF ~(\E i \in 1..Len(s.player.hand) : get_card(s.player.hand[i]).retain)
    THEN [s EXCEPT !.player.discard_pile =
                        @ \o SelectSeq(s.player.hand, LAMBDA c : ~get_card(c).retain),
                   !.player.hand = << >>]
    ELSE [s EXCEPT !.player.hand = SelectSeq(@, LAMBDA c : get_card(c).retain)]

\* CombatEngine.process_turn_end
process_turn_end(s, cfg, hooks, perm) ==
    DiscardHand(PoisonEnemy(PoisonPlayer(DecayEnemy(DecayPlayer(
        DrainQueue(s, cfg, hooks, perm))))))

\* a check that boosts whenever the enemy is at or below the threshold
EnrageOnEveryCheck(e) ==
    IF 2 * e.hp <= e.max_hp
    THEN [e EXCEPT !.is_enraged = TRUE,
                   !.modifiers.damage_multiplier.num = @ * 3,
                   !.modifiers.damage_multiplier.den = @ * 2]
    ELSE e

\* EnemyState.check_enrage: hp / max_hp <= 0.5 and not is_enraged
check_enrage(e) ==
    IF 2 * e.hp <= e.max_hp /\ ~e.is_enraged
    THEN [e EXCEPT !.is_enraged = TRUE,
                   !.modifiers.damage_multiplier.num = @ * 3,
                   !.modifiers.damage_multiplier.den = @ * 2]
    ELSE e

\* GameState.is_combat_over
is_combat_over(s) == s.player.hp <= 0 \/ s.enemy.hp <= 0 \/ s.turn >= HardTurnLimit

\* the context calculate_intent hands to the intent scaler
IntentContext(s) ==
    [turn |-> s.turn, player_hp |-> s.player.hp, player_max_hp |-> s.player.max_hp,
     enemy_hp |-> s.enemy.hp, enemy_max_hp |-> s.enemy.max_hp,
     enraged |-> IF s.enemy.is_enraged THEN 1 ELSE 0]

\* an index that skips a pattern every turn
AdvanceIndexByTwo(pattern_index) == pattern_index + 2

\* "enemy.pattern_index += 1"
AdvanceIndex(pattern_index) == pattern_index + 1

\* CombatEngine.calculate_intent: pattern_index advanced, intent and value set
calculate_intent(s, cfg) ==
    IF s.fault # "none" THEN s
    ELSE IF cfg.enemy_patterns = << >> THEN Raise(s, "ZeroDivisionError")
    ELSE LET patterns == cfg.enemy_patterns
             pattern == patterns[(s.enemy.pattern_index % Len(patterns)) + 1]
             scaler == SafeEval(cfg.intent_scaler, IntentContext(s))
             m == s.enemy.modifiers.damage_multiplier
             iv == CASE pattern.type = "attack" ->
                          <<"attack", Trunc(pattern.value * m.den + scaler * m.num, m.den)>>
                     [] pattern.type = "block" -> <<"block", pattern.value + scaler>>
                     [] pattern.type = "buff" -> <<"buff", pattern.value>>
                     [] OTHER -> <<"unknown", 0>>
         IN  [s EXCEPT !.enemy.pattern_index = AdvanceIndex(@),
                       !.enemy.intent = iv[1],
                       !.enemy.intent_value = iv[2]]

\* ------------------------------------------------------- ai.py: AIStrategy

EffectValues(card, kind) ==
    LET es == get_card(card).effects
    IN  [i \in 1..Len(es) |-> IF es[i].kind = kind THEN es[i].value ELSE 0]

HasEffect(card, kind) ==
    \E i \in 1..Len(get_card(card).effects) : get_card(card).effects[i].kind = kind

\* twice the weight _calculate_base_score gives an effect kind
KindWeight2(kind) ==
    CASE kind = "damage" -> 4
      [] kind = "block" -> 3
      [] kind = "draw" -> 6
      [] kind = "energy" -> 8
      [] kind = "status" -> 5
      [] OTHER -> 0

\* AIStrategy._calculate_base_score, times 0.4 * ScoreScale
BaseScore(card) ==
    LET es == get_card(card).effects
        h2 == SumSeq([i \in 1..Len(es) |-> es[i].value * KindWeight2(es[i].kind)])
        cost == get_card(card).cost
    IN  IF cost > 0 THEN (60 * h2) \div cost ELSE 120 * h2

\* AIStrategy._calculate_situational_score (an integer)
SituationalScore(s, cfg, card) ==
    LET low == 10 * s.player.hp < 3 * s.player.max_hp
    IN    (IF low /\ HasEffect(card, "block") THEN 20 ELSE 0)
        + (IF low /\ HasEffect(card, "damage") THEN 15 ELSE 0)
        + (IF /\ s.enemy.intent = "attack"
              /\ s.enemy.intent_value > s.player.block
              /\ HasEffect(card, "block")
           THEN Min(30, SumSeq(EffectValues(card, "block"))) ELSE 0)
        + (IF HasStatus(s.enemy.statuses, "vulnerable")
           THEN SumSeq(EffectValues(card, "damage")) ELSE 0)
        + (IF s.player.energy - get_card(card).cost < 1 THEN -5 ELSE 0)
        + (IF Len(s.player.hand) >= cfg.max_hand_size - 1 THEN 10 ELSE 0)

\* AIStrategy._calculate_combo_score (an integer); _combo_tracker stays empty
ComboScore(s, card) ==
    LET others == SelectSeq(s.player.hand, LAMBDA o : o # card)
    IN    SumSeq([i \in 1..Len(others) |->
                    (IF "power" \in get_card(card).tags /\ HasEffect(others[i], "damage")
                     THEN 15 ELSE 0)
                  + (IF HasEffect(card, "draw") /\ get_card(others[i]).cost > 2
                     THEN 10 ELSE 0)])
        + (IF s.player.cards_played_this_turn > 0 /\ "finisher" \in get_card(card).tags
           THEN s.player.cards_played_this_turn * 5 ELSE 0)

\* AIStrategy._calculate_efficiency, times 0.2 * ScoreScale
Efficiency(s, card) ==
    LET es == get_card(card).effects
        cost == get_card(card).cost
        total_value == SumSeq([i \in 1..Len(es) |-> es[i].value])
    IN  IF cost = 0 THEN 6000
        ELSE Min(6000, (6 * total_value * (10 + s.turn)) \div cost)

\* CardEvaluation.total_score, times ScoreScale
TotalScore(s, cfg, card) ==
    BaseScore(card) + 90 * SituationalScore(s, cfg, card)
        + 60 * ComboScore(s, card) + Efficiency(s, card)

\* the evaluations of the affordable cards, in hand order (card_index from 0)
Evaluations(s, cfg) ==
    LET hand == s.player.hand
        idx == SelectSeq([i \in 1..Len(hand) |-> i],
                         LAMBDA i : s.player.energy >= get_card(hand[i]).cost)
    IN  [j \in 1..Len(idx) |->
            [card_index |-> idx[j] - 1, card |-> hand[idx[j]],
             total_score |-> TotalScore(s, cfg, hand[idx[j]])]]

\* evaluations.sort(key=total_score, reverse=True): stable, descending
RECURSIVE SortEvaluations(_)
SortEvaluations(evs) ==
    IF evs = << >> THEN << >>
    ELSE LET n == Len(evs)
             front == SortEvaluations(SubSeq(evs, 1, n - 1))
             x == evs[n]
             k == Cardinality({i \in 1..(n - 1) : front[i].total_score >= x.total_score})
         IN  SubSeq(front, 1, k) \o <<x>> \o SubSeq(front, k + 1, n - 1)

\* AIStrategy._apply_strategy_modifiers raises when it boosts a score:
\* CardEvaluation is a frozen dataclass
ModifierBoosts(s, cfg, card) ==
    \E i \in 1..Len(cfg.ai_priorities) :
        LET p == cfg.ai_priorities[i]
        IN  /\ p.tag \in get_card(card).tags
            /\ \/ p.condition = "always"
               \/ /\ p.condition = "low_health"
                  /\ 100 * s.player.hp > p.threshold * s.player.max_hp

\* AIStrategy._check_lethal: the damage the greedy pass adds up
RECURSIVE PotentialDamage(_, _, _)
PotentialDamage(s, evs, energy_remaining) ==
    IF evs = << >> THEN 0
    ELSE LET card == Head(evs).card
             cost == get_card(card).cost
             raw == SumSeq(EffectValues(card, "damage"))
             damage == IF HasStatus(s.enemy.statuses, "vulnerable")
                       THEN Trunc(raw * 175, 100) ELSE raw
         IN  IF energy_remaining >= cost
             THEN damage + PotentialDamage(s, Tail(evs), energy_remaining - cost)
             ELSE PotentialDamage(s, Tail(evs), energy_remaining)

check_lethal(s, evs) ==
    PotentialDamage(s, evs, s.player.energy) >= s.enemy.hp + s.enemy.block

\* AIStrategy._is_lethal_card
is_lethal_card(s, card) ==
    LET raw == SumSeq(EffectValues(card, "damage"))
        damage == IF HasStatus(s.enemy.statuses, "vulnerable")
                  THEN Trunc(raw * 15, 10) ELSE raw
    IN  damage >= s.enemy.hp

\* select_card, after the sort: the lethal pass and the play threshold
SelectSorted(s, cfg, sorted, lethal) ==
    IF check_lethal(s, sorted) /\ lethal # {}
    THEN sorted[CHOOSE i \in lethal : \A j \in lethal : i <= j].card_index
    ELSE IF sorted[1].total_score < ScoreScale * cfg.ai_play_threshold THEN -1
    ELSE sorted[1].card_index

LethalPositions(s, sorted) ==
    {i \in 1..Len(sorted) : is_lethal_card(s, sorted[i].card)}

SelectAmong(s, cfg, evaluations, sorted) ==
    IF evaluations = << >> THEN -1
    ELSE IF \E i \in 1..Len(evaluations) : ModifierBoosts(s, cfg, evaluations[i].card)
    THEN -2
    ELSE SelectSorted(s, cfg, sorted, LethalPositions(s, sorted))

SelectFrom(s, cfg, evaluations) ==
    SelectAmong(s, cfg, evaluations, SortEvaluations(evaluations))

\* AIStrategy.select_card: -1 (end turn), a card index from 0, or -2 when
\* _apply_strategy_modifiers raises FrozenInstanceError
select_card(s, cfg) == SelectFrom(s, cfg, Evaluations(s, cfg))

\* ------------------------------------------------------ config.py: Config

Pattern(type, value) == [type |-> type, value |-> value]

\* Config(...) with the dataclass defaults for the fields not given
Cfg(deck, player_health, enemy_health, max_turns, patterns, scaler, threshold) ==
    [starting_deck |-> deck, max_hand_size |-> 10, cards_per_turn |-> 5,
     starting_hand_size |-> 5, player_health |-> player_health,
     enemy_health |-> enemy_health, max_turns |-> max_turns,
     enemy_patterns |-> patterns, intent_scaler |-> scaler,
     ai_priorities |-> << >>, ai_play_threshold |-> threshold]

\* Config.intent_scaler default: "turn // 3"
DefaultScaler == BinOp("FloorDiv", Name("turn"), Num(3))

\* The configurations explored.
Scenarios ==
    << \* a duel both sides can win
       Cfg(<<"strike", "strike", "defend">>, 12, 10, 100,
           <<Pattern("attack", 4), Pattern("block", 3)>>, DefaultScaler, 5),
       \* zero-cost cards that draw
       Cfg(<<"cantrip", "cantrip">>, 10, 10, 100,
           <<Pattern("attack", 2)>>, DefaultScaler, 10),
       \* no lethal capability on either side
       Cfg(<<"cantrip">>, 5, 3, 100,
           <<Pattern("attack", 0)>>, BinOp("FloorDiv", Name("turn"), Num(100)), 10),
       \* a configured turn limit below the default
       Cfg(<<"defend">>, 8, 8, 3,
           <<Pattern("block", 1)>>, DefaultScaler, 10),
       \* healing
       Cfg(<<"bandage", "defend">>, 12, 30, 100,
           <<Pattern("attack", 4)>>, DefaultScaler, 0),
       \* a scaler that follows the enemy's missing hp
       Cfg(<<"strike">>, 30, 20, 100,
           <<Pattern("block", 0), Pattern("attack", 9)>>,
           BinOp("Sub", Name("enemy_hp"), Name("enemy_max_hp")), 5),
       \* a retained card next to cards that are not
       Cfg(<<"bulwark", "strike", "defend">>, 9, 9, 100,
           <<Pattern("attack", 5), Pattern("buff", 0)>>, DefaultScaler, 10),
       \* a deferred effect on an ethereal card
       Cfg(<<"ember", "strike">>, 10, 9, 100,
           <<Pattern("attack", 3)>>, DefaultScaler, 5),
       \* an enemy without patterns
       Cfg(<<"strike">>, 10, 10, 100, << >>, DefaultScaler, 5) >>

\* ----------------------------------------------------------------- the state

\* PlayerState(hp, max_hp, energy=0) as run_combat constructs it
NewPlayer(cfg) ==
    [hp |-> cfg.player_health, max_hp |-> cfg.player_health, energy |-> 0,
     max_energy |-> 3, block |-> 0, statuses |-> << >>, modifiers |-> NoModifiers,
     hand |-> << >>, draw_pile |-> << >>, discard_pile |-> << >>,
     exhaust_pile |-> << >>, cards_played_this_turn |-> 0]

\* EnemyState(hp, max_hp) as run_combat constructs it
NewEnemy(cfg) ==
    [hp |-> cfg.enemy_health, max_hp |-> cfg.enemy_health, block |-> 0,
     statuses |-> << >>, modifiers |-> NoModifiers, intent |-> "unknown",
     intent_value |-> 0, pattern_index |-> 0, is_enraged |-> FALSE]

\* the GameState and the engine parts the operators above work on
S == [turn |-> turn, log |-> log, player |-> player, enemy |-> enemy,
      event_queue |-> event_queue, fault |-> fault]

\* write a computed state back; an exception ends the run
Commit(s, next_pc) ==
    /\ turn' = s.turn
    /\ log' = s.log
    /\ player' = s.player
    /\ enemy' = s.enemy
    /\ event_queue' = s.event_queue
    /\ fault' = s.fault
    /\ pc' = IF s.fault # "none" THEN "fault" ELSE next_pc

\* the orders a shuffle may produce
Perms == Permutations(1..Len(config.starting_deck))

\* CombatEngine.__init__, before run_combat is called
Init ==
    /\ \E i \in 1..Len(Scenarios) : config = Scenarios[i]
    /\ pc = "start"
    /\ fault = "none"
    /\ turn = 0
    /\ log = << >>
    /\ result = "none"
    /\ player = NewPlayer(config)
    /\ enemy = NewEnemy(config)
    /\ turn_counter = 1
    /\ card_idx = -1
    /\ event_queue = << >>
    /\ damage_modifiers = << >>
    /\ run = 1
    /\ first_log = << >>
    /\ first_result = "none"
    /\ q_pushed = << >>
    /\ q_popped = << >>
    /\ ops = << >>
    /\ scopes = << >>
    /\ safe_expr = NoSafeExpr

\* run_combat: "Initialize state", "Setup initial deck", "Draw starting hand"
Setup ==
    /\ pc = "start"
    /\ \E perm \in Perms :
         LET s0 == [turn |-> 0, log |-> << >>, player |-> NewPlayer(config),
                    enemy |-> NewEnemy(config), event_queue |-> event_queue,
                    fault |-> "none"]
         IN  Commit(DrawCards(initialize_deck(s0, config, perm), config,
                              config.starting_hand_size, perm),
                    "loop")
    /\ result' = "none"
    /\ card_idx' = -1
    /\ UNCHANGED <<config, turn_counter, damage_modifiers, run,
                   first_log, first_result, q_pushed, q_popped, ops, scopes, safe_expr>>

\* run_combat: the head of the main loop, "Start of turn" and "Draw cards"
TurnStart ==
    /\ pc = "loop"
    /\ ~is_combat_over(S)
    /\ turn_counter' = turn_counter + 1
    /\ \E perm \in Perms :
         LET s1 == [S EXCEPT !.turn = turn_counter,
                             !.player.energy = player.max_energy + player.modifiers.energy_bonus,
                             !.player.cards_played_this_turn = 0]
         IN  Commit(DrawCards(s1, config,
                              config.cards_per_turn + player.modifiers.card_draw_bonus,
                              perm),
                    "intent")
    /\ UNCHANGED <<config, card_idx, result, damage_modifiers, run, first_log, first_result,
                   q_pushed, q_popped, ops, scopes, safe_expr>>

\* run_combat: "Calculate enemy intent"
Intent ==
    /\ pc = "intent"
    /\ Commit(calculate_intent(S, config), "player")
    /\ UNCHANGED <<config, card_idx, result, turn_counter, damage_modifiers, run, first_log,
                   first_result, q_pushed, q_popped, ops, scopes, safe_expr>>

\* run_combat, "Play card": pay the cost, count the play
PayCost(s, card) ==
    [s EXCEPT !.player.energy = @ - get_card(card).cost,
              !.player.cards_played_this_turn = Min(PlaysCap, @ + 1)]

\* run_combat, "Move to discard": hand.remove(card), then discard or exhaust
MoveToDiscard(s, card) ==
    IF s.fault # "none" THEN s
    ELSE IF ~get_card(card).ethereal
    THEN [s EXCEPT !.player.hand = RemoveFirst(@, card),
                   !.player.discard_pile = Append(@, card)]
    ELSE [s EXCEPT !.player.hand = RemoveFirst(@, card),
                   !.player.exhaust_pile = Append(@, card)]

\* run_combat, "Check for combat end" inside the player loop
AfterPlay(s) == Commit(s, IF is_combat_over(s) THEN "enemy" ELSE "player")

\* run_combat, "Player turn": the policy's answer is a playable card
Playable(idx) ==
    /\ idx >= 0
    /\ idx < Len(player.hand)
    /\ player.energy >= get_card(player.hand[idx + 1]).cost

ChooseCard(idx) ==
    /\ Playable(idx)
    /\ card_idx' = idx
    /\ pc' = "play"

\* run_combat, "Player turn": the policy picks a card that can be played
SelectCard ==
    /\ pc = "player"
    /\ ChooseCard(select_card(S, config))
    /\ UNCHANGED <<config, fault, turn, log, result, player, enemy, turn_counter,
                   event_queue, damage_modifiers, run, first_log, first_result,
                   q_pushed, q_popped, ops, scopes, safe_expr>>

PlayChosen(card) ==
    \E perm \in Perms :
        AfterPlay(MoveToDiscard(
            process_card_effects(PayCost(S, card), config, card,
                                 damage_modifiers, perm),
            card))

\* run_combat, "Play card" to "Check for combat end": the chosen card is played
PlayCard ==
    /\ pc = "play"
    /\ PlayChosen(player.hand[card_idx + 1])
    /\ UNCHANGED <<config, result, turn_counter, card_idx, damage_modifiers, run,
                   first_log, first_result, q_pushed, q_popped, ops, scopes, safe_expr>>

EndChosen(idx) ==
    /\ ~Playable(idx)
    /\ card_idx' = IF idx = -2 THEN card_idx ELSE idx
    /\ Commit(IF idx = -2 THEN Raise(S, "FrozenInstanceError")
              ELSE IF idx >= Len(player.hand) THEN Raise(S, "IndexError")
              ELSE S,
              "enemy")

\* run_combat, "Player turn": the pass that leaves the loop without a play
\* (the policy returns -1 or raises, or the chosen card is not affordable)
EndPlayerTurn ==
    /\ pc = "player"
    /\ EndChosen(select_card(S, config))
    /\ UNCHANGED <<config, result, turn_counter, damage_modifiers, run, first_log,
                   first_result, q_pushed, q_popped, ops, scopes, safe_expr>>

\* run_combat, "Enemy turn"
EnemyAction ==
    /\ pc = "enemy"
    /\ LET s1 == CASE enemy.intent = "attack" ->
                       LET r == apply_damage(enemy, player, enemy.intent_value,
                                             damage_modifiers)
                       IN  LogAppend([S EXCEPT !.player.block = r.block,
                                               !.player.hp = @ - r.damage],
                                     LogLine("Enemy attacks", "", r.damage))
                   [] enemy.intent = "block" ->
                       LogAppend([S EXCEPT !.enemy.block = @ + enemy.intent_value],
                                 LogLine("Enemy gains block", "", enemy.intent_value))
                   [] enemy.intent = "buff" ->
                       [S EXCEPT !.enemy.modifiers.damage_multiplier.num = @ * 5,
                                 !.enemy.modifiers.damage_multiplier.den = @ * 4]
                   [] OTHER -> S
       IN  Commit(s1, "turn_end")
    /\ UNCHANGED <<config, card_idx, result, turn_counter, damage_modifiers, run, first_log,
                   first_result, q_pushed, q_popped, ops, scopes, safe_expr>>

\* run_combat, "End of turn" and "Check enrage"
TurnEnd ==
    /\ pc = "turn_end"
    /\ \E perm \in Perms :
         LET s1 == process_turn_end(S, config, damage_modifiers, perm)
             s2 == IF s1.fault # "none" THEN s1
                   ELSE [s1 EXCEPT !.enemy = check_enrage(@)]
         IN  Commit(s2, "loop")
    /\ UNCHANGED <<config, card_idx, result, turn_counter, damage_modifiers, run, first_log,
                   first_result, q_pushed, q_popped, ops, scopes, safe_expr>>

\* run_combat, "Determine winner": the line appended to the log
Winner(s) ==
    IF s.player.hp <= 0 /\ s.enemy.hp <= 0 THEN "DRAW"
    ELSE IF s.player.hp > 0 THEN "VICTORY"
    ELSE "DEFEAT"

Finish ==
    /\ pc = "loop"
    /\ is_combat_over(S)
    /\ result' = Winner(S)
    /\ Commit(LogAppend(S, LogLine(Winner(S), "",
                                   IF Winner(S) = "VICTORY" THEN player.hp
                                   ELSE IF Winner(S) = "DEFEAT" THEN enemy.hp ELSE 0)),
              "done")
    /\ UNCHANGED <<config, card_idx, turn_counter, damage_modifiers, run, first_log,
                   first_result, q_pushed, q_popped, ops, scopes, safe_expr>>

\* TinyDeckGame.format_result
format_result(s) ==
    IF s.player.hp > 0 /\ s.enemy.hp <= 0 THEN <<"Player wins by", s.player.hp - 1>>
    ELSE IF s.enemy.hp > 0 /\ s.player.hp <= 0 THEN <<"Enemy wins by", s.enemy.hp>>
    ELSE IF s.player.hp <= 0 /\ s.enemy.hp <= 0
    THEN <<"Draw with", IF s.player.hp < 0 THEN -s.player.hp ELSE s.player.hp>>
    ELSE IF s.player.hp - s.enemy.hp > 0
    THEN <<"Player wins by", s.player.hp - s.enemy.hp>>
    ELSE IF s.player.hp - s.enemy.hp < 0
    THEN <<"Enemy wins by", s.player.hp - s.enemy.hp>>
    ELSE <<"Draw with", 0>>

Next ==
    \/ Setup
    \/ TurnStart
    \/ Intent
    \/ SelectCard
    \/ PlayCard
    \/ EndPlayerTurn
    \/ EnemyAction
    \/ TurnEnd
    \/ Finish

Spec == Init /\ [][Next]_vars

\* the positions inside run_combat
ProgramPoints == {"start", "loop", "intent", "player", "play", "enemy", "turn_end"}

\* run_combat moves on to another position
Advance == pc \in ProgramPoints /\ pc' \in (ProgramPoints \cup {"done", "fault"})

\* every step of run_combat leaves the position it was taken from
EveryStepMovesPc == [][pc' # pc]_vars

\* run_combat is one uninterrupted call: as long as it has neither returned nor
\* raised it takes its next step.  A step of Next is possible at every position
\* of ProgramPoints and always moves pc (EveryStepMovesPc), so weak fairness of
\* Next is weak fairness of the position moving on.
FairSpec == Init /\ [][Next]_vars /\ WF_pc(Advance)


\* ------------------------------------- two runs of run_combat on one engine

\* The caller keeps the finished run's log and result and calls run_combat
\* again on the same CombatEngine: the engine's turn counter, event queue,
\* modifier list and random generator are not reset.
RunAgain ==
    /\ pc = "done"
    /\ run = 1
    /\ run' = 2
    /\ first_log' = log
    /\ first_result' = result
    /\ pc' = "start"
    /\ UNCHANGED <<config, card_idx, fault, turn, log, result, player, enemy, turn_counter,
                   event_queue, damage_modifiers, q_pushed, q_popped, ops, scopes, safe_expr>>

TwoRunNext ==
    \/ Next
    \/ RunAgain

TwoRunSpec == Init /\ [][TwoRunNext]_vars

\* --------------------------------------------- the event queue on its own

Priorities == (-1)..MaxPriority

QueueInit ==
    /\ config = Scenarios[1]
    /\ pc = "queue"
    /\ fault = "none"
    /\ turn = 0
    /\ log = << >>
    /\ result = "none"
    /\ player = NewPlayer(config)
    /\ enemy = NewEnemy(config)
    /\ turn_counter = 1
    /\ card_idx = -1
    /\ event_queue = << >>
    /\ damage_modifiers = << >>
    /\ run = 1
    /\ first_log = << >>
    /\ first_result = "none"
    /\ q_pushed = << >>
    /\ q_popped = << >>
    /\ ops = << >>
    /\ scopes = << >>
    /\ safe_expr = NoSafeExpr

\* EventQueue.push(priority, item): the item is the number of the push
QPush ==
    /\ pc = "queue"
    /\ Len(q_pushed) < MaxPushes
    /\ \E priority \in Priorities :
         /\ event_queue' = QueuePush(event_queue, priority, Len(q_pushed) + 1)
         /\ q_pushed' = Append(q_pushed, priority)
    /\ UNCHANGED <<config, pc, fault, q_popped, ops, scopes, safe_expr>>
    /\ UNCHANGED combatVars

\* EventQueue.pop() on a queue that holds something
QPop ==
    /\ pc = "queue"
    /\ event_queue # << >>
    /\ q_popped' = Append(q_popped, QueuePopItem(event_queue))
    /\ event_queue' = QueuePopRest(event_queue)
    /\ UNCHANGED <<config, pc, fault, q_pushed, ops, scopes, safe_expr>>
    /\ UNCHANGED combatVars

QueueNext ==
    \/ QPush
    \/ QPop

QueueSpec == QueueInit /\ [][QueueNext]_vars

\* a freshly constructed engine and combat state, with a harness at position at
HarnessInitWith(cfg, at) ==
    /\ config = cfg
    /\ pc = at
    /\ fault = "none"
    /\ turn = 0
    /\ log = << >>
    /\ result = "none"
    /\ player = NewPlayer(config)
    /\ enemy = NewEnemy(config)
    /\ turn_counter = 1
    /\ card_idx = -1
    /\ event_queue = << >>
    /\ damage_modifiers = << >>
    /\ run = 1
    /\ first_log = << >>
    /\ first_result = "none"
    /\ q_pushed = << >>
    /\ q_popped = << >>
    /\ ops = << >>
    /\ scopes = << >>
    /\ safe_expr = NoSafeExpr

HarnessInit(at) == HarnessInitWith(Scenarios[1], at)

\* ------------------------- the end-of-turn drain with actions that push

\* The loop of process_turn_end, `while self.event_queue: event = pop();
\* event()`, over callables of any kind: a queued action is [id, parent], id
\* the number of its push and parent the action that pushed it (0: pushed
\* before the drain).  A called action may push one further action.
DrainInit == HarnessInit("fill")

QueuedAction(parent) == [id |-> Len(q_pushed) + 1, parent |-> parent]

\* the caller queues an action before the drain starts
DrainFill ==
    /\ pc = "fill"
    /\ Len(q_pushed) < MaxPushes
    /\ \E priority \in Priorities :
         /\ event_queue' = QueuePush(event_queue, priority, QueuedAction(0))
         /\ q_pushed' = Append(q_pushed, priority)
    /\ UNCHANGED <<config, pc, fault, q_popped, ops, scopes, safe_expr>>
    /\ UNCHANGED combatVars

\* process_turn_end is entered
DrainStart ==
    /\ pc = "fill"
    /\ pc' = "drain"
    /\ UNCHANGED <<config, fault, event_queue, q_pushed, q_popped, ops, scopes, safe_expr>>
    /\ UNCHANGED combatVars

\* one pass of the loop: the popped action is called and pushes nothing
DrainCall ==
    /\ pc = "drain"
    /\ QueueNonEmpty(event_queue)
    /\ q_popped' = Append(q_popped, QueuePopItem(event_queue))
    /\ event_queue' = QueuePopRest(event_queue)
    /\ UNCHANGED <<config, pc, fault, q_pushed, ops, scopes, safe_expr>>
    /\ UNCHANGED combatVars

\* one pass of the loop: the popped action is called and pushes another one
DrainCallPushing ==
    /\ pc = "drain"
    /\ QueueNonEmpty(event_queue)
    /\ Len(q_pushed) < MaxPushes
    /\ q_popped' = Append(q_popped, QueuePopItem(event_queue))
    /\ \E priority \in Priorities :
         /\ event_queue' = QueuePush(QueuePopRest(event_queue), priority,
                                     QueuedAction(QueuePopItem(event_queue).id))
         /\ q_pushed' = Append(q_pushed, priority)
    /\ UNCHANGED <<config, pc, fault, ops, scopes, safe_expr>>
    /\ UNCHANGED combatVars

\* the loop condition is false: the drain returns
DrainReturn ==
    /\ pc = "drain"
    /\ ~QueueNonEmpty(event_queue)
    /\ pc' = "drained"
    /\ UNCHANGED <<config, fault, event_queue, q_pushed, q_popped, ops, scopes, safe_expr>>
    /\ UNCHANGED combatVars

DrainNext ==
    \/ DrainFill
    \/ DrainStart
    \/ DrainCall
    \/ DrainCallPushing
    \/ DrainReturn

DrainSpec == DrainInit /\ [][DrainNext]_vars

\* ------------------------------------------ statuses on one combatant

\* StatusEffect(type, intensity, duration)
StatusEffect(type, intensity, duration) ==
    [type |-> type, intensity |-> intensity, duration |-> duration]

\* the statuses the harness applies: permanent (-1), the default duration 0
\* of an Effect, and timed ones
HarnessTypes == {"poison", "vulnerable"}
Durations == {-1, 0, 1, 2}

\* what the harness has done last
Done(op, arg) == [op |-> op, arg |-> arg]
LastOp == ops[Len(ops)]

StatusInit == HarnessInit("status")

\* player.add_status(StatusEffect(..))
StApply ==
    /\ pc = "status"
    /\ Len(ops) < MaxOps
    /\ \E type \in HarnessTypes, intensity \in 1..MaxIntensity, duration \in Durations :
         /\ player' = [player EXCEPT !.statuses =
                          add_status(@, StatusEffect(type, intensity, duration))]
         /\ ops' = Append(ops, Done("apply", StatusEffect(type, intensity, duration)))
    /\ UNCHANGED <<config, pc, fault, turn, log, result, enemy, turn_counter,
                   card_idx, event_queue, damage_modifiers, run, first_log,
                   first_result, q_pushed, q_popped, scopes, safe_expr>>

\* process_turn_end, "Decay status effects" and "Apply poison"
StTurnEndState == PoisonEnemy(PoisonPlayer(DecayEnemy(DecayPlayer(S))))

StTurnEnd ==
    /\ pc = "status"
    /\ Len(ops) < MaxOps
    /\ Commit(StTurnEndState, "status")
    /\ ops' = Append(ops, Done("turn_end", StatusEffect("none", 0, 0)))
    /\ UNCHANGED <<config, result, turn_counter, card_idx, damage_modifiers, run,
                   first_log, first_result, q_pushed, q_popped, scopes, safe_expr>>

StatusNext ==
    \/ StApply
    \/ StTurnEnd

StatusSpec == StatusInit /\ [][StatusNext]_vars

\* ------------------------------------------ status effects of cards

\* the catalog's cards with an effect of kind status; the status type is what
\* _apply_effect reads from Effect.condition
StatusCards == {"expose", "flex"}

EffectInit == HarnessInit("effect")

\* process_card_effects(state, card) for a card with a status effect
EfPlay ==
    /\ pc = "effect"
    /\ Len(ops) < MaxOps
    /\ \E card \in StatusCards, perm \in Perms :
         /\ Commit(process_card_effects(S, config, card, damage_modifiers, perm),
                   "effect")
         /\ ops' = Append(ops, Done("play", get_card(card).effects[1]))
    /\ UNCHANGED <<config, result, turn_counter, card_idx, damage_modifiers, run,
                   first_log, first_result, q_pushed, q_popped, scopes, safe_expr>>

\* the status effect _apply_effect is called with
StatusOf(type, intensity, duration, targets_self) ==
    Effect("status", intensity, "IMMEDIATE", duration, targets_self, Name(type))

\* _apply_effect(state, effect, card) called on a status effect, as a queued
\* callable does
EfApply ==
    /\ pc = "effect"
    /\ Len(ops) < MaxOps
    /\ \E type \in HarnessTypes, intensity \in 1..MaxIntensity,
          duration \in Durations, targets_self \in BOOLEAN, perm \in Perms :
         /\ Commit(apply_effect(S, config,
                                StatusOf(type, intensity, duration, targets_self),
                                "expose", damage_modifiers, perm),
                   "effect")
         /\ ops' = Append(ops, Done("resolve",
                                    StatusOf(type, intensity, duration, targets_self)))
    /\ UNCHANGED <<config, result, turn_counter, card_idx, damage_modifiers, run,
                   first_log, first_result, q_pushed, q_popped, scopes, safe_expr>>

EffectNext ==
    \/ EfPlay
    \/ EfApply

EffectSpec == EffectInit /\ [][EffectNext]_vars

\* --------------------------------------------- one damage resolution

\* the nominal values and the target's block the harness tries
Nominals == (-2)..MaxNominal
TargetBlocks == {0, 5}

DamageInit == HarnessInit("combatants")

\* PlayerState(.., statuses=..) and EnemyState(.., block=.., statuses=..): the
\* source with or without weak, the target with vulnerable of intensity k or
\* without (k = 0)
DmSetup ==
    /\ pc = "combatants"
    /\ \E weak \in BOOLEAN, k \in 0..(MaxIntensity + 1), block \in TargetBlocks :
         /\ player' = [player EXCEPT !.statuses =
                          IF weak THEN <<StatusEffect("weak", 1, 2)>> ELSE << >>]
         /\ enemy' = [enemy EXCEPT !.block = block,
                                   !.statuses =
                          IF k > 0 THEN <<StatusEffect("vulnerable", k, 2)>> ELSE << >>]
    /\ pc' = "damage"
    /\ UNCHANGED <<config, fault, turn, log, result, turn_counter, card_idx,
                   event_queue, damage_modifiers, run, first_log, first_result,
                   q_pushed, q_popped, ops, scopes, safe_expr>>

\* _apply_effect on a damage effect of the player: apply_damage(player, enemy,
\* value), then enemy.hp -= damage
DmResolve ==
    /\ pc = "damage"
    /\ \E nominal \in Nominals, perm \in Perms :
         /\ Commit(apply_effect(S, config, Eff("damage", nominal), "strike",
                                damage_modifiers, perm),
                   "resolved")
         /\ ops' = Append(ops, Done("damage", [nominal |-> nominal, target |-> enemy]))
    /\ UNCHANGED <<config, result, turn_counter, card_idx, damage_modifiers, run,
                   first_log, first_result, q_pushed, q_popped, scopes, safe_expr>>

DamageNext ==
    \/ DmSetup
    \/ DmResolve

DamageSpec == DamageInit /\ [][DamageNext]_vars

\* --------------------------- cards with deferred effects, then turn end

\* a card whose deferred effect is not its last effect, and two cards that
\* resolve at once
DeferCards == {"ember", "strike", "defend"}

DeferInit == HarnessInit("resolve")

\* process_card_effects(state, card)
DfPlay ==
    /\ pc = "resolve"
    /\ Len(ops) < MaxOps
    /\ \E card \in DeferCards, perm \in Perms :
         /\ Commit(process_card_effects(S, config, card, damage_modifiers, perm),
                   "resolve")
         /\ ops' = Append(ops, Done("play", card))
    /\ UNCHANGED <<config, result, turn_counter, card_idx, damage_modifiers, run,
                   first_log, first_result, q_pushed, q_popped, scopes, safe_expr>>

\* process_turn_end(state)
DfTurnEnd ==
    /\ pc = "resolve"
    /\ \E perm \in Perms :
         /\ Commit(process_turn_end(S, config, damage_modifiers, perm), "ended")
         /\ ops' = <<Done("turn end", [before |-> S, perm |-> perm])>>
    /\ UNCHANGED <<config, result, turn_counter, card_idx, damage_modifiers, run,
                   first_log, first_result, q_pushed, q_popped, scopes, safe_expr>>

DeferNext ==
    \/ DfPlay
    \/ DfTurnEnd

DeferSpec == DeferInit /\ [][DeferNext]_vars

\* ------------------------- one damage resolution with registered hooks

\* how many hooks the harness registers
MaxHooks == 2

\* callables whose order matters, one of them driving the value below zero
DamageHooks == {[op |-> "add", n |-> 2], [op |-> "mul", n |-> 2], [op |-> "add", n |-> -4]}

\* "with engine.damage_modifier(hook):" entered around the resolution
DmRegister ==
    /\ pc = "damage"
    /\ Len(damage_modifiers) < MaxHooks
    /\ \E hook \in DamageHooks : damage_modifiers' = Append(damage_modifiers, hook)
    /\ UNCHANGED <<config, pc, fault, turn, log, result, player, enemy, turn_counter,
                   card_idx, event_queue, run, first_log, first_result,
                   q_pushed, q_popped, ops, scopes, safe_expr>>

HookedDamageNext ==
    \/ DmSetup
    \/ DmRegister
    \/ DmResolve

HookedDamageSpec == DamageInit /\ [][HookedDamageNext]_vars

\* ------------------------------------------- damage_modifier scopes

\* two different callables registered as hooks
Hooks == {[op |-> "add", n |-> 1], [op |-> "add", n |-> 2]}

\* an open "with engine.damage_modifier(hook):" block and the hook list as it
\* was when the block was entered
Scope(hook, before) == [hook |-> hook, before |-> before]
Innermost == scopes[Len(scopes)]

HookInit == HarnessInit("hooks")

\* entering the context manager: self._damage_modifiers.append(modifier)
HkEnter ==
    /\ pc = "hooks"
    /\ fault = "none"
    /\ Len(scopes) < MaxDepth
    /\ \E hook \in Hooks :
         /\ damage_modifiers' = Append(damage_modifiers, hook)
         /\ scopes' = Append(scopes, Scope(hook, damage_modifiers))
         /\ ops' = <<Done("enter", Scope(hook, damage_modifiers))>>
    /\ UNCHANGED <<config, pc, fault, turn, log, result, player, enemy,
                   turn_counter, card_idx, event_queue, run, first_log,
                   first_result, q_pushed, q_popped, safe_expr>>

\* the body of the innermost block raises
HkRaise ==
    /\ pc = "hooks"
    /\ fault = "none"
    /\ scopes # << >>
    /\ fault' = "Exception"
    /\ UNCHANGED <<config, pc, turn, log, result, player, enemy, turn_counter,
                   card_idx, event_queue, damage_modifiers, run, first_log,
                   first_result, q_pushed, q_popped, ops, scopes, safe_expr>>

\* leaving the innermost block, by reaching its end or with the exception
\* passing through: finally: self._damage_modifiers.remove(modifier)
HkExit ==
    /\ pc = "hooks"
    /\ scopes # << >>
    /\ damage_modifiers' = RemoveFirst(damage_modifiers, Innermost.hook)
    /\ scopes' = SubSeq(scopes, 1, Len(scopes) - 1)
    /\ ops' = <<Done("exit", Innermost)>>
    /\ UNCHANGED <<config, pc, fault, turn, log, result, player, enemy,
                   turn_counter, card_idx, event_queue, run, first_log,
                   first_result, q_pushed, q_popped, safe_expr>>

\* an except clause around the block just left handles the exception
HkCatch ==
    /\ pc = "hooks"
    /\ fault = "Exception"
    /\ ops # << >> /\ ops[1].op = "exit"
    /\ fault' = "none"
    /\ UNCHANGED <<config, pc, turn, log, result, player, enemy, turn_counter,
                   card_idx, event_queue, damage_modifiers, run, first_log,
                   first_result, q_pushed, q_popped, ops, scopes, safe_expr>>

HookNext ==
    \/ HkEnter
    \/ HkRaise
    \/ HkExit
    \/ HkCatch

HookSpec == HookInit /\ [][HookNext]_vars

\* ------------------------------------- run_combat under any decision policy

\* what a policy put in place of self.ai may answer: -1, an index into the
\* hand, or an index past its end
PolicyAnswers == (-1)..(Len(player.hand) + 1)

\* the policy's last answer and the player as the answer found them
Decision(idx) ==
    <<Done(IF Playable(idx) THEN "play" ELSE "end_turn",
           [idx |-> idx, player |-> player])>>

\* run_combat, "Player turn": the answer is a card that can be played
PolSelect ==
    /\ pc = "player"
    /\ \E idx \in PolicyAnswers :
         /\ ChooseCard(idx)
         /\ ops' = Decision(idx)
    /\ UNCHANGED <<config, fault, turn, log, result, player, enemy, turn_counter,
                   event_queue, damage_modifiers, run, first_log, first_result,
                   q_pushed, q_popped, scopes, safe_expr>>

\* run_combat, "Player turn": any other answer
PolEnd ==
    /\ pc = "player"
    /\ \E idx \in PolicyAnswers :
         /\ EndChosen(idx)
         /\ ops' = Decision(idx)
    /\ UNCHANGED <<config, result, turn_counter, damage_modifiers, run, first_log,
                   first_result, q_pushed, q_popped, scopes, safe_expr>>

PolicyNext ==
    \/ Setup
    \/ TurnStart
    \/ Intent
    \/ PolSelect
    \/ PlayCard
    \/ PolEnd
    \/ EnemyAction
    \/ TurnEnd
    \/ Finish

\* the decks whose combats are short under every policy
PolicyInit == Init /\ config \in {Scenarios[2], Scenarios[8]}

PolicySpec == PolicyInit /\ [][PolicyNext]_vars

\* ------------------------------------------ the player's card zones

\* the cards dealt: plain, retained, tagged power
ZoneCards == {"strike", "bulwark", "surge"}

\* the lists of at most n cards
Piles(n) == UNION {[1..k -> ZoneCards] : k \in 0..n}

\* Config(max_hand_size=HandLimit, ...)
ZoneInit == HarnessInitWith([Scenarios[1] EXCEPT !.max_hand_size = HandLimit], "deal")

\* PlayerState(.., hand=.., draw_pile=.., discard_pile=..)
ZnDeal ==
    /\ pc = "deal"
    /\ \E hand \in Piles(HandLimit), draw_pile \in Piles(MaxPile),
          discard_pile \in Piles(1) :
         player' = [player EXCEPT !.hand = hand, !.draw_pile = draw_pile,
                                  !.discard_pile = discard_pile]
    /\ pc' = "zones"
    /\ UNCHANGED <<config, fault, turn, log, result, enemy, turn_counter, card_idx,
                   event_queue, damage_modifiers, run, first_log, first_result,
                   q_pushed, q_popped, ops, scopes, safe_expr>>

\* what the harness did last, and the player it was done to
Before(op) == <<Done(op, [player |-> player])>>

\* DeckManager.draw_card(state)
ZnDraw ==
    /\ pc = "zones"
    /\ \E perm \in Perms : Commit(draw_card(S, config, perm), "drawn")
    /\ ops' = Before("draw")
    /\ UNCHANGED <<config, result, turn_counter, card_idx, damage_modifiers, run,
                   first_log, first_result, q_pushed, q_popped, scopes, safe_expr>>

\* CombatEngine.process_turn_end(state)
ZnTurnEnd ==
    /\ pc = "zones"
    /\ \E perm \in Perms :
         Commit(process_turn_end(S, config, damage_modifiers, perm), "ended")
    /\ ops' = Before("turn_end")
    /\ UNCHANGED <<config, result, turn_counter, card_idx, damage_modifiers, run,
                   first_log, first_result, q_pushed, q_popped, scopes, safe_expr>>

ZoneNext ==
    \/ ZnDeal
    \/ ZnDraw
    \/ ZnTurnEnd

ZoneSpec == ZoneInit /\ [][ZoneNext]_vars

\* --------------------------------------------- SafeExpr evaluations

\* numbers and names, arithmetic on them, math.floor of those, and boolean
\* and conditional expressions over a few of them
Atoms == {Num(n) : n \in 0..MaxOperand} \cup {Name("turn"), Name("bonus")}
Arithmetic ==
    {BinOp(op, l, r) : op \in {"Add", "Div", "FloorDiv", "Mod"}, l \in Atoms, r \in Atoms}
Operands ==
    {Num(0), Num(1), Name("turn"), Name("bonus"),
     MathCall("floor", Num(1)),
     MathCall("floor", BinOp("Div", Num(1), Name("turn")))}
Exprs ==
    Atoms \cup Arithmetic
    \cup {MathCall("floor", e) : e \in Operands}
    \cup {BoolOp(op, <<a, b>>) : op \in {"And", "Or"}, a \in Operands, b \in Operands}
    \cup {IfExp(c, x, y) : c \in Operands, x \in Operands, y \in Operands}

\* the contexts: turn always bound, bonus bound or not
Contexts ==
    {[turn |-> t] : t \in 0..MaxOperand}
    \cup {[turn |-> t, bonus |-> b] : t \in 0..MaxOperand, b \in 0..MaxOperand}

ExprInit == HarnessInit("expr")

\* SafeExpr(expr).eval(context)
ExEval ==
    /\ pc = "expr"
    /\ \E expr \in Exprs, context \in Contexts :
         ops' = <<Done("eval", [expr |-> expr, context |-> context,
                                outcome |-> eval(expr, context)])>>
    /\ pc' = "evaluated"
    /\ UNCHANGED <<config, fault, turn, log, result, player, enemy, turn_counter,
                   card_idx, event_queue, damage_modifiers, run, first_log,
                   first_result, q_pushed, q_popped, scopes, safe_expr>>

\* the caller evaluates another expression
ExAgain ==
    /\ pc = "evaluated"
    /\ pc' = "expr"
    /\ ops' = << >>
    /\ UNCHANGED <<config, fault, turn, log, result, player, enemy, turn_counter,
                   card_idx, event_queue, damage_modifiers, run, first_log,
                   first_result, q_pushed, q_popped, scopes, safe_expr>>

ExprNext ==
    \/ ExEval
    \/ ExAgain

ExprSpec == ExprInit /\ [][ExprNext]_vars

\* ------------------------------- SafeExpr evaluations under a small limit

LimitInit == HarnessInit("expr")

\* e = SafeExpr(expr); e._max_operations = limit; e.eval(context)
LmEval ==
    /\ pc = "expr"
    /\ \E expr \in Exprs, context \in Contexts, limit \in 1..MaxLimit :
         ops' = <<Done("eval", [expr |-> expr, context |-> context, limit |-> limit,
                                outcome |-> eval_limited(expr, context, limit)])>>
    /\ pc' = "evaluated"
    /\ UNCHANGED <<config, fault, turn, log, result, player, enemy, turn_counter,
                   card_idx, event_queue, damage_modifiers, run, first_log,
                   first_result, q_pushed, q_popped, scopes, safe_expr>>

LimitNext ==
    \/ LmEval
    \/ ExAgain

LimitSpec == LimitInit /\ [][LimitNext]_vars

\* ---------------------------------- construction of a SafeExpr, then eval

\* calls by name, calls through an attribute and bare attributes, some of
\* them inside a sum
Arguments == {Num(1), Num(2), Name("turn"), BinOp("Div", Num(1), Num(2))}
Callers ==
    {NameCall(f, a) : f \in {"floor", "ceil", "abs", "int", "open"}, a \in Arguments}
    \cup {AttrCall(obj, attr, a) : obj \in {"math", "turn"},
                                  attr \in {"floor", "ceil", "upper"}, a \in Arguments}
    \cup {Attribute("turn", "real")}
CallExprs == Callers \cup {BinOp("Add", c, Num(1)) : c \in Callers}

ConstructInit == HarnessInit("source")

\* SafeExpr(expr, allow_math=allow_math)
CnConstruct ==
    /\ pc = "source"
    /\ \E expr \in CallExprs, allow_math \in BOOLEAN :
         /\ ops' = <<Done("construct", [expr |-> expr, allow_math |-> allow_math,
                                        error |-> construct(expr, allow_math)])>>
         /\ pc' = IF construct(expr, allow_math) = "none" THEN "built" ELSE "rejected"
    /\ UNCHANGED <<config, fault, turn, log, result, player, enemy, turn_counter,
                   card_idx, event_queue, damage_modifiers, run, first_log,
                   first_result, q_pushed, q_popped, scopes, safe_expr>>

\* .eval(context) on the object constructed
CnEval ==
    /\ pc = "built"
    /\ \E context \in Contexts :
         ops' = <<Done("eval", [expr |-> LastOp.arg.expr,
                                allow_math |-> LastOp.arg.allow_math,
                                context |-> context,
                                outcome |-> eval_with(LastOp.arg.expr, context,
                                                      LastOp.arg.allow_math)])>>
    /\ pc' = "evaluated"
    /\ UNCHANGED <<config, fault, turn, log, result, player, enemy, turn_counter,
                   card_idx, event_queue, damage_modifiers, run, first_log,
                   first_result, q_pushed, q_popped, scopes, safe_expr>>

\* the caller drops the object
CnAgain ==
    /\ pc \in {"rejected", "evaluated"}
    /\ pc' = "source"
    /\ ops' = << >>
    /\ UNCHANGED <<config, fault, turn, log, result, player, enemy, turn_counter,
                   card_idx, event_queue, damage_modifiers, run, first_log,
                   first_result, q_pushed, q_popped, scopes, safe_expr>>

ConstructNext ==
    \/ CnConstruct
    \/ CnEval
    \/ CnAgain

ConstructSpec == ConstructInit /\ [][ConstructNext]_vars

\* ------------------------- one SafeExpr object evaluated again and again

\* how many times the caller evaluates one object
MaxEvals == 3

\* expressions that read both names, and contexts that bind none, one or both
PureExprs ==
    {Name("turn"), Name("bonus"),
     IfExp(Name("bonus"), Name("turn"), Num(1)),
     BoolOp("And", <<Name("turn"), Name("bonus")>>),
     MathCall("floor", BinOp("Div", Num(1), Name("turn")))}
    \cup {BinOp(op, Name("turn"), Name("bonus")) : op \in {"Add", "Div", "FloorDiv", "Mod"}}
PureContexts == {<< >>, [turn |-> 1], [turn |-> 2], [turn |-> 1, bonus |-> 1]}

PureInit == HarnessInit("source")

\* e = SafeExpr(expr)
PuConstruct ==
    /\ pc = "source"
    /\ \E expr \in PureExprs :
         /\ construct(expr, TRUE) = "none"
         /\ safe_expr' = [tree |-> expr, _operations |-> 0, _depth |-> 0,
                          _context |-> << >>,
                          max_operations |-> MaxOperations, max_depth |-> max_depth,
                          allow_math |-> TRUE]
    /\ pc' = "object"
    /\ UNCHANGED <<config, fault, turn, log, result, player, enemy, turn_counter,
                   card_idx, event_queue, damage_modifiers, run, first_log,
                   first_result, q_pushed, q_popped, ops, scopes>>

\* e.eval(context), the caller keeping its dict
PuEval ==
    /\ pc = "object"
    /\ Len(ops) < MaxEvals
    /\ \E context \in PureContexts :
         /\ safe_expr' = eval_call(safe_expr, context).self
         /\ ops' = Append(ops, Done("eval",
                       [context |-> context,
                        after |-> eval_call(safe_expr, context).context,
                        outcome |-> eval_call(safe_expr, context).outcome]))
    /\ UNCHANGED <<config, pc, fault, turn, log, result, player, enemy, turn_counter,
                   card_idx, event_queue, damage_modifiers, run, first_log,
                   first_result, q_pushed, q_popped, scopes>>

\* the caller drops the object
PuDrop ==
    /\ pc = "object"
    /\ Len(ops) = MaxEvals
    /\ pc' = "source"
    /\ ops' = << >>
    /\ safe_expr' = NoSafeExpr
    /\ UNCHANGED <<config, fault, turn, log, result, player, enemy, turn_counter,
                   card_idx, event_queue, damage_modifiers, run, first_log,
                   first_result, q_pushed, q_popped, scopes>>

PureNext ==
    \/ PuConstruct
    \/ PuEval
    \/ PuDrop

PureSpec == PureInit /\ [][PureNext]_vars

\* ---------------------------------- the built-in policy asked once

\* Config.ai_priorities: none, a boost for a tag, a boost tied to health;
\* threshold in hundredths
Priority(condition, tag, threshold) ==
    [condition |-> condition, tag |-> tag, threshold |-> threshold]
PriorityLists ==
    {<< >>, <<Priority("always", "power", 0)>>, <<Priority("low_health", "power", 50)>>}

AiInit ==
    \E priorities \in PriorityLists :
        HarnessInitWith([Scenarios[1] EXCEPT !.ai_priorities = priorities], "hand")

\* GameState(turn=1, player=PlayerState(.., energy=.., hand=..),
\* enemy=EnemyState(hp=.., ..))
AiDeal ==
    /\ pc = "hand"
    /\ \E hand \in Piles(HandLimit), energy \in 0..3, hp \in {3, 10} :
         /\ player' = [player EXCEPT !.hand = hand, !.energy = energy]
         /\ enemy' = [enemy EXCEPT !.hp = hp]
    /\ turn' = 1
    /\ pc' = "ask"
    /\ UNCHANGED <<config, fault, log, result, turn_counter, card_idx, event_queue,
                   damage_modifiers, run, first_log, first_result, q_pushed,
                   q_popped, ops, scopes, safe_expr>>

\* card_idx = self.ai.select_card(state)
AiSelect ==
    /\ pc = "ask"
    /\ IF select_card(S, config) = -2
       THEN /\ fault' = "FrozenInstanceError"
            /\ pc' = "fault"
            /\ UNCHANGED card_idx
       ELSE /\ card_idx' = select_card(S, config)
            /\ pc' = "answered"
            /\ UNCHANGED fault
    /\ UNCHANGED <<config, turn, log, result, player, enemy, turn_counter,
                   event_queue, damage_modifiers, run, first_log, first_result,
                   q_pushed, q_popped, ops, scopes, safe_expr>>

AiNext ==
    \/ AiDeal
    \/ AiSelect

AiSpec == AiInit /\ [][AiNext]_vars


\* ====================================================================== claims

\* the combat is terminal in the sense of GameState.is_combat_over / the spec
HpTerminal == pc # "start" /\ (player.hp <= 0 \/ enemy.hp <= 0)

\* the four piles, as the number of copies of card c they hold together
InPiles(c) ==
    Count(player.hand, c) + Count(player.draw_pile, c)
        + Count(player.discard_pile, c) + Count(player.exhaust_pile, c)

\* C1: in every reachable state of a combat, player.hp >= 0 and enemy.hp >= 0
\* (every hp-reducing operation floors hp at zero).
C1_HpNonNegative == player.hp >= 0 /\ enemy.hp >= 0

\* C2: the terminal state is absorbing: once either hp has reached 0 or the
\* turn limit is reached, no later step changes either combatant's hp, block,
\* statuses, modifiers or the piles.
C2_TerminalAbsorbing ==
    [][ (HpTerminal \/ (pc # "start" /\ turn >= config.max_turns))
        => /\ player'.hp = player.hp
           /\ player'.block = player.block
           /\ player'.statuses = player.statuses
           /\ player'.modifiers = player.modifiers
           /\ player'.hand = player.hand
           /\ player'.draw_pile = player.draw_pile
           /\ player'.discard_pile = player.discard_pile
           /\ player'.exhaust_pile = player.exhaust_pile
           /\ enemy'.hp = enemy.hp
           /\ enemy'.block = enemy.block
           /\ enemy'.statuses = enemy.statuses
           /\ enemy'.modifiers = enemy.modifiers ]_vars

\* C3: every combat terminates: run_combat reaches its result (or raises)
\* after finitely many steps, for every catalog, deck and pattern list.
C3_Terminates == <>(pc \in {"done", "fault"})

\* C4: no turn with a number greater than the configured limit
\* Config.max_turns is ever started.
C4_TurnWithinConfiguredLimit == turn <= config.max_turns

\* C5: when the combat ends at the turn limit with both combatants alive and
\* the enemy's remaining hp fraction is larger than the player's, the run is
\* not recorded as a player victory, neither by run_combat's result line nor
\* by format_result.
C5_TieBreakByFraction ==
    ( /\ pc = "done"
      /\ turn >= config.max_turns
      /\ player.hp > 0
      /\ enemy.hp > 0
      /\ enemy.hp * player.max_hp > player.hp * enemy.max_hp )
    => (result # "VICTORY" /\ format_result(S)[1] # "Player wins by")

\* C6: combat is deterministic: a second run from the same configuration,
\* started on the same engine after the first has finished, produces the same
\* log and the same terminal result as the first.
C6_SecondRunIdentical ==
    (run = 2 /\ pc = "done") => (log = first_log /\ result = first_result)

\* C7: after a heal effect resolves, the target's hp is at most its max_hp
\* (heal is the only operation that raises hp).
C7_HealClamped == player.hp <= player.max_hp /\ enemy.hp <= enemy.max_hp

\* C8: block >= 0 holds for both combatants in every reachable state.
C8_BlockNonNegative == player.block >= 0 /\ enemy.block >= 0

\* C9: after setup the four piles together hold exactly the cards of the
\* starting deck: no card instance is lost or duplicated by a draw, reshuffle,
\* card play or end-of-turn discard.
C9_PilesConserved ==
    (pc # "start" /\ run = 1)
    => \A c \in CardIds : InPiles(c) = Count(config.starting_deck, c)

\* priority with which item number it was pushed
PushedPriority(it) == q_pushed[it]

\* C10: the event queue delivers pending actions in ascending priority order
\* and, among actions of equal priority, in the order they were pushed: every
\* delivered action has the least priority of all pending actions and was
\* pushed before every pending action of the same priority.
C10_DeliveryOrder ==
    [][ q_popped' # q_popped
        => LET it == q_popped'[Len(q_popped')]
           IN  \A k \in 1..Len(event_queue) :
                 \/ PushedPriority(it) < event_queue[k][1]
                 \/ /\ PushedPriority(it) = event_queue[k][1]
                    /\ it <= event_queue[k][2] ]_vars

\* C10 witness: (2,b), (1,a), (1,c) were pushed and the drain delivered a, c, b
C10_Witness == q_pushed = <<2, 1, 1>> /\ q_popped = <<2, 3, 1>>

\* how often the action pushed as number id was called
TimesCalled(id) == Cardinality({i \in 1..Len(q_popped) : q_popped[i].id = id})

\* C11: the end-of-turn drain calls every pending action exactly once, calls
\* within the same drain every action that a drained action pushes, and
\* leaves the queue empty when it returns.
C11_DrainComplete ==
    /\ \A id \in 1..Len(q_pushed) : TimesCalled(id) <= 1
    /\ pc = "drained"
       => /\ event_queue = << >>
          /\ \A id \in 1..Len(q_pushed) : TimesCalled(id) = 1

\* C11 witness: a drain has returned in which a called action pushed another
C11_Witness ==
    /\ pc = "drained"
    /\ \E i \in 1..Len(q_popped) : q_popped[i].parent # 0

\* the harness has just applied a status / just run the end of a turn
JustApplied == Len(ops') = Len(ops) + 1 /\ ops'[Len(ops')].op = "apply"
JustEndedTurn == Len(ops') = Len(ops) + 1 /\ ops'[Len(ops')].op = "turn_end"
Incoming == ops'[Len(ops')].arg

\* C12: applying a status whose type the combatant already carries merges it:
\* when the existing and the incoming duration are both timed (> 0), the
\* merged intensity is the sum of the two intensities and the merged duration
\* the larger of the two durations.
C12_MergeTimed ==
    [][ JustApplied
        => \A i \in 1..Len(player.statuses) :
             ( /\ player.statuses[i].type = Incoming.type
               /\ player.statuses[i].duration > 0
               /\ Incoming.duration > 0 )
             => /\ Len(player'.statuses) = Len(player.statuses)
                /\ player'.statuses[i].type = Incoming.type
                /\ player'.statuses[i].intensity =
                     player.statuses[i].intensity + Incoming.intensity
                /\ player'.statuses[i].duration =
                     Max(player.statuses[i].duration, Incoming.duration) ]_vars

\* C12 witness: vulnerable(1, duration 2) then vulnerable(1, duration 1) were
\* applied and the player carries vulnerable with intensity 2, duration 2
C12_Witness ==
    /\ Len(ops) = 2
    /\ ops[1] = Done("apply", StatusEffect("vulnerable", 1, 2))
    /\ ops[2] = Done("apply", StatusEffect("vulnerable", 1, 1))
    /\ player.statuses = <<StatusEffect("vulnerable", 2, 2)>>

\* C13: when a status is merged and the existing or the incoming status is
\* permanent (duration -1), the merged status is permanent, in both orders of
\* application.
C13_MergePermanent ==
    [][ JustApplied
        => \A i \in 1..Len(player.statuses) :
             ( /\ player.statuses[i].type = Incoming.type
               /\ (player.statuses[i].duration = -1 \/ Incoming.duration = -1) )
             => player'.statuses[i].duration = -1 ]_vars

\* C14: the end-of-turn decay completes without fault for every status map:
\* every timed status has its duration lowered by exactly one, those that
\* reach zero are removed and all others stay, whatever else is removed.
C14_DecayCompletes ==
    [][ JustEndedTurn
        => /\ fault' = "none"
           /\ \A i \in 1..Len(player.statuses) :
                LET old == player.statuses[i]
                    left == {j \in 1..Len(player'.statuses) :
                               player'.statuses[j].type = old.type}
                IN  IF old.duration = 1 THEN left = {}
                    ELSE \E j \in left :
                           player'.statuses[j].duration =
                             IF old.duration > 1 THEN old.duration - 1
                             ELSE old.duration ]_vars

\* C15: no status map ever holds a status of duration 0: a status is permanent
\* (-1) or has a positive remaining duration.
C15_NoZeroDuration ==
    /\ \A i \in 1..Len(player.statuses) : player.statuses[i].duration # 0
    /\ \A i \in 1..Len(enemy.statuses) : enemy.statuses[i].duration # 0

\* C16: after an end-of-turn poison tick no combatant carries a poison status
\* of intensity 0: the tick removes the poison once its intensity reaches zero.
C16_PoisonRemovedAtZero ==
    (ops # << >> /\ LastOp.op = "turn_end" /\ fault = "none")
    => /\ \A i \in 1..Len(player.statuses) :
            ~(player.statuses[i].type = "poison" /\ player.statuses[i].intensity = 0)
       /\ \A i \in 1..Len(enemy.statuses) :
            ~(enemy.statuses[i].type = "poison" /\ enemy.statuses[i].intensity = 0)

\* C17: when a card's effect of kind status resolves, the targeted combatant
\* (the player when targets_self, otherwise the enemy) afterwards carries a
\* status of the declared type, and the resolution completes without fault.
C17_StatusEffectApplies ==
    (ops # << >> /\ LastOp.op \in {"play", "resolve"})
    => /\ fault = "none"
       /\ HasStatus(IF LastOp.arg.targets_self THEN player.statuses
                    ELSE enemy.statuses,
                    LastOp.arg.condition.id)

\* the damage resolution the harness has performed: its nominal value, the
\* target as it was, and what the target lost
Resolved == pc = "resolved" /\ fault = "none"
NominalValue == LastOp.arg.nominal
TargetBefore == LastOp.arg.target
HpLoss == TargetBefore.hp - enemy.hp
BlockLoss == TargetBefore.block - enemy.block
VulnerableIntensity ==
    IF HasStatus(TargetBefore.statuses, "vulnerable")
    THEN TargetBefore.statuses[1].intensity ELSE 0

\* C18: a source carrying weak has its outgoing damage reduced by 25%: with
\* damage multiplier 1, no vulnerable target, no hooks and no block the applied
\* damage is floor(nominal * 0.75); with nominal 10 against a vulnerable target
\* holding block 5 the target loses 5 block and 5 hp.
C18_WeakReducesByQuarter ==
    (Resolved /\ HasStatus(player.statuses, "weak") /\ NominalValue >= 0)
    => /\ (VulnerableIntensity = 0 /\ TargetBefore.block = 0)
          => HpLoss = (NominalValue * 3) \div 4
       /\ (VulnerableIntensity > 0 /\ TargetBefore.block = 5 /\ NominalValue = 10)
          => (BlockLoss = 5 /\ HpLoss = 5)

C20_ScopeRestoresHooks ==
    (pc = "hooks" /\ ops # << >> /\ LastOp.op = "exit")
    => damage_modifiers = LastOp.arg.before

\* C21: a combat configured with an empty enemy pattern list is rejected as a
\* configuration error at Setup, before any turn starts and before any state
\* is changed; it never fails with a modulo by zero in the Intent phase.
C21_EmptyPatternsRejected ==
    (config.enemy_patterns = << >>)
    => /\ pc \in {"start", "fault"}
       /\ fault # "ZeroDivisionError"
       /\ turn = 0
       /\ player = NewPlayer(config)
       /\ enemy = NewEnemy(config)

\* C22: whatever the decision policy returns, the player loop never faults
\* and never plays an illegal card: an index outside the hand or a card that
\* costs more than the current energy ends the player's turn with energy, hand
\* and piles unchanged.
C22_InvalidDecisionEndsTurn ==
    /\ fault # "IndexError"
    /\ pc = "play" => Playable(card_idx)
    /\ (pc = "enemy" /\ ops # << >> /\ LastOp.op = "end_turn")
       => /\ player.energy = LastOp.arg.player.energy
          /\ player.hand = LastOp.arg.player.hand
          /\ player.draw_pile = LastOp.arg.player.draw_pile
          /\ player.discard_pile = LastOp.arg.player.discard_pile
          /\ player.exhaust_pile = LastOp.arg.player.exhaust_pile

\* the player as the last operation of the card-zone harness found them
PlayerBefore == LastOp.arg.player
JustDid(op) == pc \in {"drawn", "ended", "fault"} /\ ops # << >> /\ LastOp.op = op

\* C23: a draw while the hand is at capacity and a card is available still
\* takes the card from the draw pile and puts it on the discard pile: the draw
\* pile shrinks by one, the discard pile grows by that card, the hand is
\* unchanged.
C23_DrawAtCapacityDiscards ==
    ( /\ JustDid("draw")
      /\ Len(PlayerBefore.hand) >= config.max_hand_size
      /\ PlayerBefore.draw_pile # << >> )
    => /\ fault = "none"
       /\ player.hand = PlayerBefore.hand
       /\ Len(player.draw_pile) = Len(PlayerBefore.draw_pile) - 1
       /\ Len(player.discard_pile) = Len(PlayerBefore.discard_pile) + 1
       /\ \E i \in 1..Len(PlayerBefore.draw_pile) :
            player.discard_pile = Append(PlayerBefore.discard_pile,
                                         PlayerBefore.draw_pile[i])

\* C24: after the end-of-turn discard step the hand holds exactly the retain
\* cards that were in it, in their order, and every other card that was in the
\* hand is in the discard pile, whatever the mix of the hand.
C24_DiscardKeepsRetain ==
    JustDid("turn_end")
    => /\ fault = "none"
       /\ player.hand = SelectSeq(PlayerBefore.hand, LAMBDA c : get_card(c).retain)
       /\ player.discard_pile =
            PlayerBefore.discard_pile
            \o SelectSeq(PlayerBefore.hand, LAMBDA c : ~get_card(c).retain)

\* C26: cards and effects are never changed by combat: drawing any card, also
\* one tagged power, completes without fault and the card drawn is the card of
\* the catalog, with the cost, effects and flags it was constructed with.
C26_DrawLeavesCardIntact ==
    (JustDid("draw") /\ Len(PlayerBefore.draw_pile) > Len(player.draw_pile))
    => /\ fault = "none"
       /\ player.hand[Len(player.hand)] \in CardIds

\* the enemy's damage multiplier after a step is k/d times what it was
MultiplierTimes(k, d) ==
    enemy'.modifiers.damage_multiplier.num * enemy.modifiers.damage_multiplier.den * d
    = enemy.modifiers.damage_multiplier.num * enemy'.modifiers.damage_multiplier.den * k

\* C25: enrage happens at most once per combat and is permanent: is_enraged
\* never returns to false, and the end of a turn multiplies the enemy's damage
\* multiplier by 1.5 when the enemy becomes enraged there and leaves it alone
\* otherwise, however many turns end with the enemy at or below the threshold.
C25_EnrageOnce ==
    [][ /\ enemy.is_enraged => enemy'.is_enraged
        /\ (pc = "turn_end" /\ pc' = "loop")
           => IF ~enemy.is_enraged /\ enemy'.is_enraged
              THEN MultiplierTimes(3, 2)
              ELSE MultiplierTimes(1, 1)
        /\ (~enemy.is_enraged /\ enemy'.is_enraged) => pc = "turn_end" ]_vars

\* C25 witness: a turn is about to end with the enemy already enraged, alive
\* and still at or below half of its hp
C25_Witness ==
    /\ pc = "turn_end"
    /\ enemy.is_enraged
    /\ enemy.hp > 0
    /\ 2 * enemy.hp <= enemy.max_hp
    /\ enemy.modifiers.damage_multiplier.num * 2 = enemy.modifiers.damage_multiplier.den * 3

\* the evaluation the expression harness has performed
Evaluated == pc = "evaluated"
Expr == LastOp.arg.expr
Context == LastOp.arg.context
Outcome == LastOp.arg.outcome

\* C27: an expression that reads a variable absent from the context ends in
\* an error, for every expression and context; the evaluation never returns a
\* number.
C27_UnboundVariableRaises ==
    (Evaluated /\ ~(NamesRead(Expr) \subseteq DOMAIN Context))
    => Outcome.err # "none"

\* C28: a division, floor division or modulo whose right operand evaluates to
\* zero ends in an error; it never returns infinity, 0 or the left operand.
C28_DivisionByZeroRaises ==
    ( /\ Evaluated
      /\ Expr.k = "BinOp"
      /\ Expr.op \in {"Div", "FloorDiv", "Mod"}
      /\ IsZero(eval(Expr.r, Context).v) )
    => Outcome.err # "none"

\* C29: 'a and b' with a false and 'a or b' with a true never evaluate b: the
\* outcome is that of a alone (0 for and, 1 for or), with the nodes of a, the
\* boolean node and the expression node counted and nothing else, also when b
\* would raise.
C29_BoolOpShortCircuits ==
    ( /\ Evaluated
      /\ Expr.k = "BoolOp"
      /\ eval(Expr.values[1], Context).err = "none"
      /\ Truthy(eval(Expr.values[1], Context).v) = (Expr.op = "Or") )
    => Outcome = Ok(Val(IF Expr.op = "Or" THEN 1 ELSE 0),
                    eval(Expr.values[1], Context).n + 1)

\* C30: in 'x if c else y' only the branch selected by c is evaluated: the
\* outcome is that of the selected branch evaluated after c, the other branch
\* adds no node to the count and cannot make the evaluation fail.
C30_IfExpEvaluatesOneBranch ==
    ( /\ Evaluated
      /\ Expr.k = "IfExp"
      /\ eval_node(Expr.test, Context, 2).err = "none" )
    => LET test == eval_node(Expr.test, Context, 2)
           selected == eval_node(IF Truthy(test.v) THEN Expr.body ELSE Expr.orelse,
                                 Context, test.n)
       IN  Outcome = IF selected.err # "none"
                     THEN Err("ExpressionError", selected.n)
                     ELSE selected

\* the limit of the evaluation performed, and the calls of _eval_node the same
\* evaluation makes when nothing limits it
Limit == LastOp.arg.limit
Needed == eval(Expr, Context).n

RECURSIVE UsesForbidden(_, _)
UsesForbidden(node, allow_math) ==
    \/ /\ node.k = "NameCall"
       /\ node.func \notin AllowedFunctions
       /\ ~(allow_math /\ node.func \in MathFunctions)
    \/ node.k = "Attribute"
    \/ node.k = "AttrCall" /\ node.obj # "math"
    \/ \E i \in 1..Len(Children(node)) : UsesForbidden(Children(node)[i], allow_math)

\* C32: construction rejects every expression that calls a function outside
\* the enabled whitelist or uses attribute access (a math function by name
\* while allow_math is off, x.floor(1), a bare x.real): none of them is
\* constructed, so none is ever evaluated to a number.
C32_ForbiddenCallsRejected ==
    ( /\ pc \in {"built", "rejected", "evaluated"}
      /\ UsesForbidden(LastOp.arg.expr, LastOp.arg.allow_math) )
    => pc = "rejected"

\* what an eval call gave back: the value, or the error
Returned(op) == [v |-> op.arg.outcome.v, err |-> op.arg.outcome.err]

\* C33: eval is a pure function of (expression, context): two eval calls
\* on one SafeExpr object with identical contexts have identical outcomes
\* (same value, or both raise), whatever evaluations with other contexts
\* happened in between, and eval leaves the caller's context as it was.
C33_EvalIsPure ==
    pc = "object" =>
        /\ \A i \in 1..Len(ops), j \in 1..Len(ops) :
              ops[i].arg.context = ops[j].arg.context
                  => Returned(ops[i]) = Returned(ops[j])
        /\ \A i \in 1..Len(ops) : ops[i].arg.after = ops[i].arg.context

\* the same context evaluated twice with another one in between, whose
\* outcome differs
C33_Witness ==
    /\ pc = "object"
    /\ Len(ops) = 3
    /\ ops[1].arg.context = ops[3].arg.context
    /\ ops[2].arg.context # ops[1].arg.context
    /\ Returned(ops[2]) # Returned(ops[1])
    /\ DOMAIN ops[1].arg.context # DOMAIN ops[2].arg.context

\* what the source's weak and the target's vulnerable make of the nominal
\* value, and the registered hooks applied to it from the first to hook i
Multiplied ==
    LET weakened == IF HasStatus(player.statuses, "weak")
                    THEN Trunc(NominalValue * 5, 10) ELSE NominalValue
    IN  IF VulnerableIntensity > 0 THEN Trunc(weakened * 15, 10) ELSE weakened

RECURSIVE AfterHook(_)
AfterHook(i) ==
    IF i = 0 THEN Multiplied
    ELSE IF damage_modifiers[i].op = "mul"
         THEN AfterHook(i - 1) * damage_modifiers[i].n
         ELSE AfterHook(i - 1) + damage_modifiers[i].n

\* the value that reached the block step
ValueAtBlock == AfterHook(Len(damage_modifiers))

\* C34: block absorption: for the value v reaching the block step and target
\* block b, absorbed = min(v, b), the target's block becomes b - absorbed and
\* the damage returned is v - absorbed; returned plus absorbed equals v and
\* nothing is returned while block remains.
C34_BlockAbsorption ==
    Resolved =>
        LET v == ValueAtBlock
            b == TargetBefore.block
            absorbed == IF v < b THEN v ELSE b
        IN  /\ BlockLoss = absorbed
            /\ enemy.block = b - absorbed
            /\ HpLoss = v - absorbed
            /\ HpLoss + BlockLoss = v
            /\ (HpLoss > 0 => enemy.block = 0)

\* a hit smaller than the block, absorbed whole, block remaining
C34_Witness ==
    /\ Resolved
    /\ damage_modifiers # << >>
    /\ TargetBefore.block = 5
    /\ ValueAtBlock = 3
    /\ enemy.block = 2
    /\ HpLoss = 0

\* C35: the registered modifier hooks are applied in registration order, each
\* to the running value the previous one produced, after the weak and
\* vulnerable multipliers and before block absorption: what the target loses
\* in block and hp together is the multiplied nominal value taken through
\* the hooks from the first registered to the last.
C35_HooksInRegistrationOrder ==
    (Resolved /\ damage_modifiers # << >>)
    => /\ RunningValue(player, TargetBefore, NominalValue, damage_modifiers)
             = AfterHook(Len(damage_modifiers))
       /\ BlockLoss + HpLoss = AfterHook(Len(damage_modifiers))

\* nominal 4 from a weak source against a vulnerable target with block 5,
\* through "add 2" then "multiply by 2": 4 -> 2 -> 3 -> 5 -> 10, 5 absorbed and
\* 5 dealt (the other order of the hooks gives 8)
C35_Witness ==
    /\ Resolved
    /\ damage_modifiers = <<[op |-> "add", n |-> 2], [op |-> "mul", n |-> 2]>>
    /\ HasStatus(player.statuses, "weak")
    /\ VulnerableIntensity = 1
    /\ NominalValue = 4
    /\ TargetBefore.block = 5
    /\ BlockLoss = 5
    /\ HpLoss = 5

\* C38: damage resolution never increases the target's block and never
\* returns a negative damage, for every nominal value and every hook result,
\* a negative running value included: block after <= block before and the
\* damage returned >= 0.
C38_BlockNeverIncreases ==
    Resolved => (enemy.block <= TargetBefore.block /\ HpLoss >= 0)

\* the pattern the claim assigns to turn t
PatternOfTurn(t) == config.enemy_patterns[((t - 1) % Len(config.enemy_patterns)) + 1]

RECURSIVE ApplyQueued(_, _)
ApplyQueued(s, perm) ==
    IF s.event_queue = << >> THEN s
    ELSE LET event == s.event_queue[1][2]
         IN  ApplyQueued(apply_effect([s EXCEPT !.event_queue = Tail(@)], config,
                                      get_card(event.card).effects[event.for_effect],
                                      event.card, damage_modifiers, perm),
                         perm)

\* C37: every deferred effect queued while a card resolves is applied, when
\* the queue is drained, as that same effect (the action queued for effect i
\* applies effect i and not another effect of the card), each exactly once:
\* the turn end leaves the combatants as applying the queued effects
\* themselves would.
C37_DeferredEffectApplied ==
    (pc = "ended" /\ fault = "none")
    => LET before == LastOp.arg.before
           expected == process_turn_end(ApplyQueued(before, LastOp.arg.perm), config,
                                        damage_modifiers, LastOp.arg.perm)
       IN  /\ event_queue = << >>
           /\ player = expected.player
           /\ enemy = expected.enemy

\* C39: the built-in policy only proposes legal plays: select_card returns
\* -1 (end turn) or an index i with 0 <= i < len(hand) and hand[i].cost <= the
\* player's energy, in every state, and it returns without fault.
C39_PolicyProposesLegalPlays ==
    pc \in {"answered", "fault"}
    => /\ fault = "none"
       /\ \/ card_idx = -1
          \/ /\ 0 <= card_idx
             /\ card_idx < Len(player.hand)
             /\ get_card(player.hand[card_idx + 1]).cost <= player.energy

=============================================================================
